---------------------------- MODULE Spec2Model ----------------------------
(***************************************************************************)
(* A model of mailgun/lemma's httpsign package: request signing and        *)
(* authentication (auth.go), the nonce cache used for replay detection     *)
(* (nonce.go) and the random provider (random).                            *)
(*                                                                         *)
(* Strings are sequences of one-character strings, byte strings are        *)
(* sequences of numbers 0..255.  HMAC-SHA256 is modelled as an ideal keyed *)
(* function: the MAC of (key, data) is the pair itself, so two MACs are    *)
(* equal exactly when key and data are equal, and no byte string that was  *)
(* not produced by computeMAC equals a MAC.                                *)
(***************************************************************************)
EXTENDS Integers, Sequences, FiniteSets, TLC

VARIABLES
    config,     \* Service.config after NewWithProviders, with Service.secretKey
    clock,      \* timeProvider.UtcNow().Unix()
    cache,      \* NonceCache.cache: the ttlmap, nonce -> expiry time
    req,        \* the *http.Request the caller holds
    orig,       \* history: the request as the last SignRequestWithKey left it, and its key
    accepted,   \* history: the last request AuthenticateRequestWithKey returned nil for
    evicted,    \* history: an insertion found the cache at capacity
    last,       \* history: the last call and what it returned
    mutex,      \* NonceCache's sync.Mutex: its holder, or Free
    pc,         \* each goroutine's position
    local,      \* each goroutine's local variables
    log         \* history: the InCache calls in the order they returned

vars == <<config, clock, cache, req, orig, accepted, evicted, last,
          mutex, pc, local, log>>

-----------------------------------------------------------------------------
(* Program constants.                                                      *)

MaxSkewSec == 5
CacheTimeout == 100
CacheCapacity == 5000 * CacheTimeout
NonceBytes == 16

XMailgunSignature == "X-Mailgun-Signature"
XMailgunSignatureVersion == "X-Mailgun-Signature-Version"
XMailgunNonce == "X-Mailgun-Nonce"
XMailgunTimestamp == "X-Mailgun-Timestamp"

(* Bounds of the model.                                                    *)

MaxClock == 7
MaxAttempts == 3
SmallTTL == 6
NThreads == 2
MaxCalls == 3
MaxCapacity == 3
MaxCacheClock == 1

-----------------------------------------------------------------------------
(* Strings and conversions.                                                *)

Digits == <<"0", "1", "2", "3", "4", "5", "6", "7", "8", "9">>

HexDigits == <<"0", "1", "2", "3", "4", "5", "6", "7", "8", "9",
               "a", "b", "c", "d", "e", "f">>

IsDigit(c) == \E i \in 1..10 : Digits[i] = c

DigitValue(c) == (CHOOSE i \in 1..10 : Digits[i] = c) - 1

\* fmt.Sprintf("%v", n) for a length n >= 0
RECURSIVE Itoa(_)
Itoa(n) == IF n < 10 THEN <<Digits[n + 1]>>
           ELSE Itoa(n \div 10) \o <<Digits[(n % 10) + 1]>>

\* strconv.FormatInt(n, 10)
FormatInt(n) == IF n < 0 THEN <<"-">> \o Itoa(-n) ELSE Itoa(n)

RECURSIVE DigitsValue(_)
DigitsValue(s) == IF s = <<>> THEN 0
                  ELSE 10 * DigitsValue(SubSeq(s, 1, Len(s) - 1))
                       + DigitValue(s[Len(s)])

\* strconv.ParseInt(s, 10, 0): an optional sign, then one or more decimal
\* digits.  The strings of the model are far shorter than the 19 digits at
\* which the 64-bit range check could fail.
ParseInt(s) ==
    LET signed == s # <<>> /\ s[1] \in {"+", "-"}
        ds == IF signed THEN Tail(s) ELSE s
    IN  IF ds # <<>> /\ \A i \in 1..Len(ds) : IsDigit(ds[i])
        THEN [ok |-> TRUE,
              val |-> IF signed /\ s[1] = "-" THEN -DigitsValue(ds)
                      ELSE DigitsValue(ds)]
        ELSE [ok |-> FALSE, val |-> 0]

\* hex.EncodeToString writing uppercase digits
RECURSIVE HexEncodeUpper(_)
HexEncodeUpper(b) ==
    LET UpperDigits == <<"0", "1", "2", "3", "4", "5", "6", "7", "8", "9",
                         "A", "B", "C", "D", "E", "F">>
    IN  IF b = <<>> THEN <<>>
        ELSE <<UpperDigits[(b[1] \div 16) + 1], UpperDigits[(b[1] % 16) + 1]>>
             \o HexEncodeUpper(Tail(b))


\* hex.EncodeToString: two lowercase hex digits per byte
RECURSIVE HexEncode(_)
HexEncode(b) == IF b = <<>> THEN <<>>
                ELSE <<HexDigits[(b[1] \div 16) + 1], HexDigits[(b[1] % 16) + 1]>>
                     \o HexEncode(Tail(b))

-----------------------------------------------------------------------------
(* The random provider.                                                    *)

\* FakeRNG.Bytes(n): 0x00, 0x01, 0x02, ...
FakeRNGBytes(n) == [i \in 1..n |-> (i - 1) % 256]

\* CSPRNG.Bytes(n) may return any n bytes: two of them stand for all, the
\* sequence FakeRNG returns and one that differs from it in every byte.
CSPRNGBytes(n) == {FakeRNGBytes(n), [i \in 1..n |-> 255 - ((i - 1) % 256)]}

\* RandomProvider.HexDigest(n), for either provider
HexDigest(n) == {HexEncode(b) : b \in CSPRNGBytes(n)}

-----------------------------------------------------------------------------
(* Keys, header values, requests.                                          *)

\* a []byte key: nil, or its bytes
NilKey == [nil |-> TRUE, bytes |-> <<>>]
Key(b) == [nil |-> FALSE, bytes |-> b]

\* a header of http.Header: absent, or set to a value
NoHeader == [set |-> FALSE, v |-> <<>>]
Header(s) == [set |-> TRUE, v |-> s]

\* http.Header.Get: the value, "" when the header is absent
HeaderGet(h) == IF h.set THEN h.v ELSE <<>>

\* r.Body: nil (a client request built without a body), or a reader of bytes
NilBody == [nil |-> TRUE, bytes |-> <<>>]
Body(b) == [nil |-> FALSE, bytes |-> b]

\* The signature header.  A hex digest of a MAC is not spelled out in
\* characters: it is the MAC it encodes, in lowercase (as EncodeToString
\* writes it) or in uppercase.  Any other text is kept as characters.
NoMAC == [key |-> <<>>, data |-> <<>>]
NoSignature == [kind |-> "absent", mac |-> NoMAC, upper |-> FALSE, text |-> <<>>]
HexOfMAC(m, up) == [kind |-> "hex", mac |-> m, upper |-> up, text |-> <<>>]
SignatureText(s) == [kind |-> "text", mac |-> NoMAC, upper |-> FALSE, text |-> s]

\* r.Header.Get(SignatureHeaderName) == ""
SignatureIsEmpty(sig) == sig.kind = "absent" \/ (sig.kind = "text" /\ sig.text = <<>>)

\* errors: the nil error, or a message and its argument
Nil == [err |-> "nil", arg |-> ""]
Error(msg, a) == [err |-> msg, arg |-> a]

-----------------------------------------------------------------------------
(* auth.go: the MAC engine.                                                *)

\* fields written without their lengths
BareField(f) == f


\* fmt.Sprintf("%v|", len(f)) followed by f
LengthPrefixed(f) == Itoa(Len(f)) \o <<"|">> \o f

RECURSIVE HeaderFields(_)
HeaderFields(hv) == IF hv = <<>> THEN <<>>
                    ELSE <<"|">> \o LengthPrefixed(hv[1]) \o HeaderFields(Tail(hv))

\* the canonical bytes without the verb
CanonicalBytesNoVerb(signVerbAndUri, httpVerb, httpResourceUri, timestamp, nonce, body, headerValues) ==
    LengthPrefixed(timestamp)
    \o <<"|">> \o LengthPrefixed(nonce)
    \o <<"|">> \o LengthPrefixed(body)
    \o (IF signVerbAndUri
        THEN <<"|">> \o LengthPrefixed(httpResourceUri)
        ELSE <<>>)
    \o HeaderFields(headerValues)


\* the bytes computeMAC writes to the hmac, in the order it writes them
CanonicalBytes(signVerbAndUri, httpVerb, httpResourceUri, timestamp, nonce, body, headerValues) ==
    LengthPrefixed(timestamp)
    \o <<"|">> \o LengthPrefixed(nonce)
    \o <<"|">> \o LengthPrefixed(body)
    \o (IF signVerbAndUri
        THEN <<"|">> \o LengthPrefixed(httpVerb)
             \o <<"|">> \o LengthPrefixed(httpResourceUri)
        ELSE <<>>)
    \o HeaderFields(headerValues)

\* hmac.New(sha256.New, secretKey) ... mac.Sum(nil): a nil key is the empty key
computeMAC(secretKey, signVerbAndUri, httpVerb, httpResourceUri, timestamp, nonce, body, headerValues) ==
    [key |-> secretKey.bytes,
     data |-> CanonicalBytes(signVerbAndUri, httpVerb, httpResourceUri,
                             timestamp, nonce, body, headerValues)]

IsHexDigit(c) == c \in {"0", "1", "2", "3", "4", "5", "6", "7", "8", "9",
                        "a", "b", "c", "d", "e", "f",
                        "A", "B", "C", "D", "E", "F"}

\* hex.DecodeString(signature): an error for an odd length or a character
\* that is no hex digit of either case; isMAC tells whether the bytes are
\* those of a MAC, and of which
HexDecodeString(sig) ==
    CASE sig.kind = "hex" -> [ok |-> TRUE, isMAC |-> TRUE, mac |-> sig.mac]
      [] sig.kind = "text" ->
           [ok |-> Len(sig.text) % 2 = 0
                   /\ \A i \in 1..Len(sig.text) : IsHexDigit(sig.text[i]),
            isMAC |-> FALSE, mac |-> NoMAC]
      [] OTHER -> [ok |-> TRUE, isMAC |-> FALSE, mac |-> NoMAC]

checkMAC(secretKey, signVerbAndUri, httpVerb, httpResourceUri, timestamp, nonce, body, headerValues, signature) ==
    LET expectedMAC == HexDecodeString(signature)
        computedMAC == computeMAC(secretKey, signVerbAndUri, httpVerb,
                                  httpResourceUri, timestamp, nonce, body,
                                  headerValues)
        isEqual == expectedMAC.isMAC /\ expectedMAC.mac = computedMAC
    IN  IF ~expectedMAC.ok THEN Error("encoding/hex", "")
        ELSE IF ~isEqual THEN Error("invalid signature", "")
        ELSE Nil

\* extractHeaderValues(r, headerNames): the values in the order of the
\* names, or an error naming the first header the request does not hold
RECURSIVE HeaderValuesOf(_, _)
HeaderValuesOf(r, headerNames) ==
    IF headerNames = <<>> THEN <<>>
    ELSE <<HeaderGet(r.header[headerNames[1]])>>
         \o HeaderValuesOf(r, Tail(headerNames))

extractHeaderValues(r, headerNames) ==
    LET missing == {i \in 1..Len(headerNames) : ~r.header[headerNames[i]].set}
    IN  IF missing = {} THEN [err |-> Nil, values |-> HeaderValuesOf(r, headerNames)]
        ELSE [err |-> Error("header not found in request.",
                            headerNames[CHOOSE i \in missing :
                                            \A j \in missing : i <= j]),
              values |-> <<>>]

\* checkTimestamp with a window as long as the TTL: the skew is not
\* subtracted from it
checkTimestampWholeTTL(timestampHeader, now, cacheTTL) ==
    LET parsed == ParseInt(timestampHeader)
        timestamp == parsed.val
    IN  IF ~parsed.ok THEN Error("unable to parse", XMailgunTimestamp)
        ELSE IF timestamp >= now + MaxSkewSec
             THEN Error("timestamp header from the future", "")
        ELSE IF timestamp <= now - cacheTTL
             THEN Error("timestamp header too old", "")
        ELSE Nil

\* checkTimestamp without the skew allowed for the signer's clock
checkTimestampNoSkew(timestampHeader, now, cacheTTL) ==
    LET parsed == ParseInt(timestampHeader)
        timestamp == parsed.val
    IN  IF ~parsed.ok THEN Error("unable to parse", XMailgunTimestamp)
        ELSE IF timestamp >= now
             THEN Error("timestamp header from the future", "")
        ELSE IF timestamp <= now - (cacheTTL - MaxSkewSec)
             THEN Error("timestamp header too old", "")
        ELSE Nil

\* checkTimestamp with the bound on the future compared by > (a timestamp of
\* now + MaxSkewSec passes)
checkTimestampFutureInclusive(timestampHeader, now, cacheTTL) ==
    LET parsed == ParseInt(timestampHeader)
        timestamp == parsed.val
    IN  IF ~parsed.ok THEN Error("unable to parse", XMailgunTimestamp)
        ELSE IF timestamp > now + MaxSkewSec
             THEN Error("timestamp header from the future", "")
        ELSE IF timestamp <= now - (cacheTTL - MaxSkewSec)
             THEN Error("timestamp header too old", "")
        ELSE Nil

\* checkTimestamp with the bound on the past compared by < (a timestamp of
\* now - (cacheTTL - MaxSkewSec) passes)
checkTimestampPastInclusive(timestampHeader, now, cacheTTL) ==
    LET parsed == ParseInt(timestampHeader)
        timestamp == parsed.val
    IN  IF ~parsed.ok THEN Error("unable to parse", XMailgunTimestamp)
        ELSE IF timestamp >= now + MaxSkewSec
             THEN Error("timestamp header from the future", "")
        ELSE IF timestamp < now - (cacheTTL - MaxSkewSec)
             THEN Error("timestamp header too old", "")
        ELSE Nil


\* Service.checkTimestamp
checkTimestamp(timestampHeader, now, cacheTTL) ==
    LET parsed == ParseInt(timestampHeader)
        timestamp == parsed.val
    IN  IF ~parsed.ok THEN Error("unable to parse", XMailgunTimestamp)
        ELSE IF timestamp >= now + MaxSkewSec
             THEN Error("timestamp header from the future", "")
        ELSE IF timestamp <= now - (cacheTTL - MaxSkewSec)
             THEN Error("timestamp header too old", "")
        ELSE Nil


-----------------------------------------------------------------------------
(* nonce.go: the nonce cache, over ttlmap.TtlMap.  The map is a function   *)
(* from the keys it holds to their expiry times, in Unix seconds.          *)

Remove(m, k) == [x \in DOMAIN m \ {k} |-> m[x]]

Put(m, k, v) == [x \in DOMAIN m \cup {k} |-> IF x = k THEN v ELSE m[x]]

\* TtlMap.Get for which an entry still exists at its expiry time
TtlMapExistsAtExpiry(m, now, k) == k \in DOMAIN m /\ m[k] >= now


\* TtlMap.Get(key): an entry whose expiry time has come does not exist
TtlMapExists(m, now, k) == k \in DOMAIN m /\ m[k] > now

\* ... and Get deletes it
TtlMapAfterGet(m, now, k) ==
    IF k \in DOMAIN m /\ m[k] <= now THEN Remove(m, k) ELSE m

\* TtlMap.Set that keeps the new key only
TtlMapSetAlone(m, capacity, now, k, ttlSeconds) ==
    IF ttlSeconds <= 0 THEN {m} ELSE {[x \in {k} |-> now + ttlSeconds]}


\* TtlMap.Set that frees no entry of a map at capacity
TtlMapSetGrowing(m, capacity, now, k, ttlSeconds) ==
    IF ttlSeconds <= 0 THEN {m} ELSE {Put(m, k, now + ttlSeconds)}


\* TtlMap.Set(key, value, ttlSeconds): an error, and no change, unless
\* ttlSeconds > 0; a key held gets the new expiry time; a new key put into
\* a map at capacity first frees one entry, one with the least expiry time.
\* The set of maps that may result (one, unless least expiry times tie).
TtlMapSet(m, capacity, now, k, ttlSeconds) ==
    IF ttlSeconds <= 0 THEN {m}
    ELSE IF k \in DOMAIN m THEN {Put(m, k, now + ttlSeconds)}
    ELSE IF Cardinality(DOMAIN m) >= capacity /\ DOMAIN m # {}
         THEN {Put(Remove(m, x), k, now + ttlSeconds) :
                 x \in {y \in DOMAIN m : \A z \in DOMAIN m : m[y] <= m[z]}}
    ELSE {Put(m, k, now + ttlSeconds)}

\* NonceCache.InCache(nonce), the body it runs holding the lock: whether
\* the nonce exists, and the maps that may result
InCacheExists(m, now, nonce) == TtlMapExists(m, now, nonce)

\* InCache without the Set
InCacheMapsNoSet(m, capacity, cacheTTL, now, nonce) == {m}

InCacheMaps(m, capacity, cacheTTL, now, nonce) ==
    IF InCacheExists(m, now, nonce) THEN {m}
    ELSE TtlMapSet(TtlMapAfterGet(m, now, nonce), capacity, now, nonce, cacheTTL)

\* whether that call puts a new key into a map at capacity
InCacheFrees(m, capacity, cacheTTL, now, nonce) ==
    /\ ~InCacheExists(m, now, nonce)
    /\ cacheTTL > 0
    /\ Cardinality(DOMAIN TtlMapAfterGet(m, now, nonce)) >= capacity


-----------------------------------------------------------------------------
(* auth.go: the Service.                                                   *)

CustomHeader == "X-Mailgun-Custom-Header"

\* the headers of a request other than the signature
HeaderNames == {XMailgunNonce, XMailgunTimestamp, XMailgunSignatureVersion, CustomHeader}

\* NewWithProviders(config, ...): the defaults it sets, and the key it read
\* from disk (nil when none was read)
NewWithProviders(headersToSign, signVerbAndURI, capacity, timeout, keyBytes) ==
    [HeadersToSign |-> headersToSign,
     SignVerbAndURI |-> signVerbAndURI,
     NonceCacheCapacity |-> IF capacity < 1 THEN CacheCapacity ELSE capacity,
     NonceCacheTimeout |-> IF timeout < 1 THEN CacheTimeout ELSE timeout,
     secretKey |-> keyBytes]

\* the body bytes SignRequestWithKey signs: "" for a request without a body
SignedBodyBytes(r) == IF r.body.nil THEN <<>> ELSE r.body.bytes

\* SignRequestWithKey that sets the nonce, timestamp and version headers
\* before it extracts the headers to sign
SignResultHeadersFirst(cfg, r, secretKey, nonce, now) ==
    LET hv == extractHeaderValues(r, cfg.HeadersToSign)
        timestamp == FormatInt(now)
        computedMAC == computeMAC(secretKey, cfg.SignVerbAndURI, r.method, r.uri,
                                  timestamp, nonce, SignedBodyBytes(r), hv.values)
        marked == [r EXCEPT
                     !.header = [r.header EXCEPT
                                   ![XMailgunNonce] = Header(nonce),
                                   ![XMailgunTimestamp] = Header(timestamp),
                                   ![XMailgunSignatureVersion] = Header(<<"2">>)]]
    IN  IF hv.err # Nil THEN [err |-> hv.err, r |-> marked]
        ELSE [err |-> Nil, r |-> [marked EXCEPT !.signature = HexOfMAC(computedMAC, FALSE)]]


\* SignRequestWithKey(r, secretKey) with the nonce the random provider
\* returned and the time the time provider returned: the error, and the
\* request as the call leaves it
SignResult(cfg, r, secretKey, nonce, now) ==
    LET hv == extractHeaderValues(r, cfg.HeadersToSign)
        timestamp == FormatInt(now)
        computedMAC == computeMAC(secretKey, cfg.SignVerbAndURI, r.method, r.uri,
                                  timestamp, nonce, SignedBodyBytes(r), hv.values)
    IN  IF hv.err # Nil THEN [err |-> hv.err, r |-> r]
        ELSE [err |-> Nil,
              r |-> [r EXCEPT
                       !.header = [r.header EXCEPT
                                     ![XMailgunNonce] = Header(nonce),
                                     ![XMailgunTimestamp] = Header(timestamp),
                                     ![XMailgunSignatureVersion] = Header(<<"2">>)],
                       !.signature = HexOfMAC(computedMAC, FALSE)]]

\* AuthenticateRequestWithKey checking the MAC under the Service's own key
CheckRequestOwnKey(cfg, r, secretKey) ==
    LET nonce == HeaderGet(r.header[XMailgunNonce])
        timestamp == HeaderGet(r.header[XMailgunTimestamp])
        hv == extractHeaderValues(r, cfg.HeadersToSign)
    IN  IF SignatureIsEmpty(r.signature) THEN Error("header not found", XMailgunSignature)
        ELSE IF nonce = <<>> THEN Error("header not found", XMailgunNonce)
        ELSE IF timestamp = <<>> THEN Error("header not found", XMailgunTimestamp)
        ELSE IF r.body.nil THEN Error("panic", "nil pointer dereference")
        ELSE IF hv.err # Nil THEN hv.err
        ELSE checkMAC(cfg.secretKey, cfg.SignVerbAndURI, r.method, r.uri, timestamp,
                      nonce, r.body.bytes, hv.values, r.signature)


\* AuthenticateRequestWithKey(r, secretKey) up to the MAC check: the first
\* error, or Nil.  Reading a nil Body dereferences a nil pointer.
CheckRequest(cfg, r, secretKey) ==
    LET nonce == HeaderGet(r.header[XMailgunNonce])
        timestamp == HeaderGet(r.header[XMailgunTimestamp])
        hv == extractHeaderValues(r, cfg.HeadersToSign)
    IN  IF SignatureIsEmpty(r.signature) THEN Error("header not found", XMailgunSignature)
        ELSE IF nonce = <<>> THEN Error("header not found", XMailgunNonce)
        ELSE IF timestamp = <<>> THEN Error("header not found", XMailgunTimestamp)
        ELSE IF r.body.nil THEN Error("panic", "nil pointer dereference")
        ELSE IF hv.err # Nil THEN hv.err
        ELSE checkMAC(secretKey, cfg.SignVerbAndURI, r.method, r.uri, timestamp,
                      nonce, r.body.bytes, hv.values, r.signature)

\* ... and up to the nonce check
CheckRequestAndTimestamp(cfg, r, secretKey, now) ==
    LET e == CheckRequest(cfg, r, secretKey)
    IN  IF e # Nil THEN e
        ELSE checkTimestamp(HeaderGet(r.header[XMailgunTimestamp]), now,
                            cfg.NonceCacheTimeout)

\* AuthenticateRequestWithKey that looks the nonce up, and inserts it,
\* before the other checks
AuthenticateMapsNonceFirst(e, cfg, r, now, m) ==
    IF HeaderGet(r.header[XMailgunNonce]) = <<>> THEN {m}
    ELSE InCacheMaps(m, cfg.NonceCacheCapacity, cfg.NonceCacheTimeout, now,
                     HeaderGet(r.header[XMailgunNonce]))


\* The whole call with the nonce cache holding m, e being the outcome of
\* the checks before the nonce check: the error it returns,
AuthenticateResult(e, r, now, m) ==
    IF e # Nil THEN e
    ELSE IF InCacheExists(m, now, HeaderGet(r.header[XMailgunNonce]))
         THEN Error("nonce already in cache", "")
    ELSE Nil

\* the nonce caches it may leave,
AuthenticateMaps(e, cfg, r, now, m) ==
    IF e # Nil THEN {m}
    ELSE InCacheMaps(m, cfg.NonceCacheCapacity, cfg.NonceCacheTimeout, now,
                     HeaderGet(r.header[XMailgunNonce]))

\* and whether it puts the nonce into a cache at capacity
AuthenticateFrees(e, cfg, r, now, m) ==
    /\ e = Nil
    /\ InCacheFrees(m, cfg.NonceCacheCapacity, cfg.NonceCacheTimeout, now,
                    HeaderGet(r.header[XMailgunNonce]))


-----------------------------------------------------------------------------
(* The requests, keys and configurations of the model.                     *)

GET == <<"G", "E", "T">>
POST == <<"P", "O", "S", "T">>

KeyABC == Key(<<"a", "b", "c">>)
KeyXYZ == Key(<<"x", "y", "z">>)
Keys == {KeyABC, KeyXYZ}

UnsignedHeaders(custom) ==
    [h \in HeaderNames |-> IF h = CustomHeader THEN custom ELSE NoHeader]

\* http.NewRequest(method, url, body), and Header.Set of the custom header
NewRequestOf(method, uri, body, custom) ==
    [method |-> method, uri |-> uri, body |-> body,
     header |-> UnsignedHeaders(custom), signature |-> NoSignature]

BaseRequests ==
    {NewRequestOf(GET, <<"/">>, NilBody, NoHeader),
     NewRequestOf(POST, <<"/", "x">>, Body(<<"a">>), Header(<<"b">>))}

\* a request of another client
OtherRequest == NewRequestOf(POST, <<"/", "o">>, Body(<<"o">>), Header(<<"b">>))

\* The request a server's handler is given for a request sent: net/http
\* gives a handler a non-nil Body, empty for a request sent without one.
Received(r) == [r EXCEPT !.body = Body(SignedBodyBytes(r))]

\* Config.NonceCacheCapacity and Config.NonceCacheTimeout: a small cache
CacheSettings == {<<1, SmallTTL>>}

Configs ==
    {NewWithProviders(h, v, c[1], c[2], k) :
        h \in {<<>>, <<CustomHeader>>}, v \in BOOLEAN, c \in CacheSettings,
        k \in {NilKey, KeyABC}}

\* The client that signs has a time provider of its own: its clock agrees
\* with the Service's, or is ahead of it by the most the Service tolerates.
SignerAhead == {0, MaxSkewSec - 1}

Threads == 1..NThreads

EmptyMap == [x \in {} |-> 0]

\* The last call of the Service: the method called, the key it worked with,
\* the error it returned, and the signals it sent to the metrics client.
NoCall == [op |-> "none", method |-> "", key |-> NilKey, res |-> Nil, seen |-> FALSE,
           attempt |-> 0, metrics |-> <<>>]

Unsigned(r) == [signed |-> FALSE, r |-> r, key |-> NilKey, at |-> 0]

NoLocal == [nonce |-> <<>>, key |-> NilKey, exists |-> FALSE, before |-> 0, res |-> Nil]

-----------------------------------------------------------------------------
(* The Service and one request: the request is signed, sent and            *)
(* authenticated, any number of times, while time passes and the Service   *)
(* authenticates the requests of other clients.                            *)

Init ==
    /\ config \in Configs
    /\ clock = 0
    /\ cache = EmptyMap
    /\ req \in BaseRequests
    /\ orig = Unsigned(req)
    /\ accepted = {}
    /\ evicted = FALSE
    /\ last = NoCall
    /\ mutex = 0
    /\ pc = [t \in Threads |-> "idle"]
    /\ local = [t \in Threads |-> NoLocal]
    /\ log = <<>>

idle == UNCHANGED <<mutex, pc, local, log>>

\* the time provider's clock advances; time is counted from the signature,
\* the first call that reads the clock
Tick ==
    /\ orig.signed
    /\ clock < MaxClock
    /\ clock' = clock + 1
    /\ last' = NoCall
    /\ UNCHANGED <<config, cache, req, orig, accepted, evicted>>
    /\ idle

\* The request is signed, once.  The random provider returns a nonce that
\* the cache does not hold: requests signed within the TTL of one another
\* carry different nonces.
Sign(secretKey, method) ==
    /\ ~orig.signed
    /\ \E nonce \in HexDigest(NonceBytes) \ DOMAIN cache, ahead \in SignerAhead :
         LET res == SignResult(config, req, secretKey, nonce, clock + ahead)
         IN  /\ req' = res.r
             /\ orig' = IF res.err = Nil
                        THEN [signed |-> TRUE, r |-> res.r, key |-> secretKey,
                              at |-> clock + ahead]
                        ELSE orig
             /\ last' = [op |-> "sign", method |-> method, key |-> secretKey,
                         res |-> res.err, seen |-> FALSE, attempt |-> 0,
                         metrics |-> <<>>]
    /\ UNCHANGED <<config, clock, cache, accepted, evicted>>
    /\ idle

SignRequestWithKey == \E k \in Keys : Sign(k, "SignRequestWithKey")

SignRequest ==
    IF config.secretKey.nil
    THEN /\ last' = [op |-> "sign", method |-> "SignRequest", key |-> NilKey,
                     res |-> Error("service not loaded with key.", ""),
                     seen |-> FALSE, attempt |-> 0, metrics |-> <<>>]
         /\ UNCHANGED <<config, clock, cache, req, orig, accepted, evicted>>
         /\ idle
    ELSE Sign(config.secretKey, "SignRequest")

\* whether req was accepted before, and whether with this key at this time
Seen == \E a \in accepted : a.r = req

SeenNow(secretKey) == \E a \in accepted : a.r = req /\ a.key = secretKey /\ a.at = clock

\* the number of this attempt among the calls that, one after the other,
\* passed the same request and key at the same time, the first one accepted
AttemptNumber(secretKey, res) ==
    IF last.op = "auth" /\ last.key = secretKey /\ last.attempt > 0 /\ SeenNow(secretKey)
    THEN (IF last.attempt < MaxAttempts THEN last.attempt + 1 ELSE last.attempt)
    ELSE IF res = Nil THEN 1 ELSE 0

\* the request is sent, and the handler that receives it authenticates it
Authenticate(secretKey, method) ==
    LET r == Received(req)
        e == CheckRequestAndTimestamp(config, r, secretKey, clock)
        res == AuthenticateResult(e, r, clock, cache)
    IN  /\ cache' \in AuthenticateMaps(e, config, r, clock, cache)
        /\ evicted' = (evicted \/ AuthenticateFrees(e, config, r, clock, cache))
        /\ accepted' = IF res = Nil
                       THEN {[r |-> req, key |-> secretKey, at |-> clock]}
                       ELSE accepted
        /\ last' = [op |-> "auth", method |-> method, key |-> secretKey, res |-> res,
                    seen |-> Seen, attempt |-> AttemptNumber(secretKey, res),
                    metrics |-> <<IF res = Nil THEN "success" ELSE "failure">>]
        /\ UNCHANGED <<config, clock, req, orig>>
        /\ idle

AuthenticateRequestWithKey == \E k \in Keys : Authenticate(k, "AuthenticateRequestWithKey")

\* AuthenticateRequest that goes on without a key
AuthenticateRequestUnchecked == Authenticate(config.secretKey, "AuthenticateRequest")


AuthenticateRequest ==
    IF config.secretKey.nil
    THEN /\ last' = [op |-> "auth", method |-> "AuthenticateRequest", key |-> NilKey,
                     res |-> Error("service not loaded with key.", ""),
                     seen |-> Seen, attempt |-> 0, metrics |-> <<>>]
         /\ UNCHANGED <<config, clock, cache, req, orig, accepted, evicted>>
         /\ idle
    ELSE Authenticate(config.secretKey, "AuthenticateRequest")

\* Another client signs its request now, with a nonce of its own, and the
\* Service authenticates it.
AuthenticateOther ==
    /\ \E nonce \in HexDigest(NonceBytes) \ {HeaderGet(req.header[XMailgunNonce])} :
         LET r == Received(SignResult(config, OtherRequest, KeyABC, nonce, clock).r)
             e == CheckRequestAndTimestamp(config, r, KeyABC, clock)
         IN  /\ cache' \in AuthenticateMaps(e, config, r, clock, cache)
             /\ evicted' = (evicted \/ AuthenticateFrees(e, config, r, clock, cache))
    /\ last' = NoCall
    /\ UNCHANGED <<config, clock, req, orig, accepted>>
    /\ idle

Next ==
    \/ Tick
    \/ SignRequest
    \/ SignRequestWithKey
    \/ AuthenticateRequest
    \/ AuthenticateRequestWithKey
    \/ AuthenticateOther

Spec == Init /\ [][Next]_vars

-----------------------------------------------------------------------------
(* Properties of the Service and one request.                              *)

ReplayError == Error("nonce already in cache", "")

\* the last call authenticated the request with the key the request was
\* signed with (AuthenticateRequest of a Service without a key works with
\* no key at all)
AuthenticatedWithSigningKey ==
    /\ last.op = "auth"
    /\ last.key = orig.key
    /\ ~(last.method = "AuthenticateRequest" /\ config.secretKey.nil)

\* the clock is within the timestamp window of the time t: t is neither
\* MaxSkewSec or more ahead of it nor TTL - MaxSkewSec or more behind it
WithinWindow(t, now, ttl) == now - (ttl - MaxSkewSec) < t /\ t < now + MaxSkewSec

SignedIsAccepted ==
    (/\ AuthenticatedWithSigningKey
     /\ orig.signed /\ req = orig.r
     /\ ~last.seen
     /\ WithinWindow(orig.at, clock, config.NonceCacheTimeout))
    => last.res = Nil

SignedIsAcceptedWitness ==
    /\ AuthenticatedWithSigningKey /\ last.res = Nil
    /\ orig.signed /\ req = orig.r /\ ~last.seen
    /\ config.SignVerbAndURI /\ config.HeadersToSign # <<>>
    /\ config.secretKey = orig.key

\* C5: the second attempt to authenticate a request that was accepted, and
\* the third and every further one, made with the same key and with the
\* clock unchanged, fails with the replay error.
SecondAdmissionRejected ==
    (last.op = "auth" /\ last.attempt >= 2) => last.res = ReplayError

SecondAdmissionRejectedWitness ==
    last.op = "auth" /\ last.attempt = MaxAttempts /\ last.res = ReplayError

-----------------------------------------------------------------------------
(* checkTimestamp on its own: a Service with the default TTL or a small   *)
(* one, its frozen clock at any time up to MaxClock, and timestamp        *)
(* headers around both ends of the window.                                *)

\* the timestamps tried: from beyond the old end to beyond the future end
Timestamps(now, ttl) == (now - ttl - 1)..(now + MaxSkewSec + 2)

\* the decimal spellings of t that strconv.ParseInt reads as t
Spellings(t) ==
    {FormatInt(t)}
    \cup (IF t >= 0 THEN {<<"+">> \o FormatInt(t), <<"0">> \o FormatInt(t)}
                    ELSE {<<"-", "0">> \o FormatInt(-t)})

\* headers that are not integers
NotIntegers == {<<>>, <<"x">>, <<"-">>, <<"1", ".", "5">>, <<"1", " ">>, <<"0", "x", "1">>}

TimestampHeaders(now, ttl) ==
    NotIntegers \cup UNION {Spellings(t) : t \in Timestamps(now, ttl)}

InitTS ==
    /\ config \in {NewWithProviders(<<>>, FALSE, 0, t, KeyABC) : t \in {0, SmallTTL}}
    /\ clock \in 0..MaxClock
    /\ cache = EmptyMap
    /\ req = NewRequestOf(GET, <<"/">>, NilBody, NoHeader)
    /\ orig = Unsigned(req)
    /\ accepted = {}
    /\ evicted = FALSE
    /\ last = NoCall
    /\ mutex = 0
    /\ pc = [t \in Threads |-> "idle"]
    /\ local = [t \in Threads |-> NoLocal]
    /\ log = <<>>

\* a request arrives with some timestamp header
SetTimestamp ==
    /\ \E h \in TimestampHeaders(clock, config.NonceCacheTimeout) :
          req' = [req EXCEPT !.header[XMailgunTimestamp] = Header(h)]
    /\ last' = NoCall
    /\ UNCHANGED <<config, clock, cache, orig, accepted, evicted>>
    /\ idle

\* s.checkTimestamp(r.Header.Get(XMailgunTimestamp))
CheckTimestamp ==
    /\ last.op = "none"
    /\ req.header[XMailgunTimestamp].set
    /\ last' = [NoCall EXCEPT
                  !.op = "checkTimestamp",
                  !.res = checkTimestamp(HeaderGet(req.header[XMailgunTimestamp]),
                                         clock, config.NonceCacheTimeout)]
    /\ UNCHANGED <<config, clock, cache, req, orig, accepted, evicted>>
    /\ idle

NextTS == SetTimestamp \/ CheckTimestamp

SpecTS == InitTS /\ [][NextTS]_vars

TimestampHeader == HeaderGet(req.header[XMailgunTimestamp])

\* the header spells the time d seconds after the clock's
SpellsNowPlus(d) == TimestampHeader \in Spellings(clock + d)

\* C8: checkTimestamp accepts a header exactly when it spells an integer t
\* with now - (ttl - MaxSkewSec) < t < now + MaxSkewSec, both bounds
\* strict; a header that is not an integer is rejected.
TimestampWindow ==
    last.op = "checkTimestamp" =>
       /\ last.res = Nil <=>
             \E t \in Timestamps(clock, config.NonceCacheTimeout) :
                /\ TimestampHeader \in Spellings(t)
                /\ WithinWindow(t, clock, config.NonceCacheTimeout)
       /\ TimestampHeader \in NotIntegers => last.res # Nil

\* the last second accepted before the future end of the window
TimestampWindowWitness ==
    /\ last.op = "checkTimestamp" /\ last.res = Nil
    /\ SpellsNowPlus(MaxSkewSec - 1)

\* C9 as stated: with the TTL of 100 and the skew of 5, T+5 is accepted,
\* T+6 rejected, T-94 accepted and T-95 rejected.
BoundaryAsStated ==
    (last.op = "checkTimestamp" /\ config.NonceCacheTimeout = CacheTimeout) =>
       /\ SpellsNowPlus(MaxSkewSec) => last.res = Nil
       /\ SpellsNowPlus(MaxSkewSec + 1) => last.res # Nil
       /\ SpellsNowPlus(1 - (CacheTimeout - MaxSkewSec)) => last.res = Nil
       /\ SpellsNowPlus(-(CacheTimeout - MaxSkewSec)) => last.res # Nil

\* C9, amended: with the TTL of 100 and the skew of 5, T+4 is accepted and
\* is the last valid future value, T+5 and T+6 are rejected as from the
\* future, T-94 is accepted and T-95 is rejected as too old.
BoundaryValues ==
    (last.op = "checkTimestamp" /\ config.NonceCacheTimeout = CacheTimeout) =>
       /\ SpellsNowPlus(MaxSkewSec - 1) => last.res = Nil
       /\ \A d \in MaxSkewSec..(MaxSkewSec + 2) :
             SpellsNowPlus(d) => last.res = Error("timestamp header from the future", "")
       /\ SpellsNowPlus(1 - (CacheTimeout - MaxSkewSec)) => last.res = Nil
       /\ SpellsNowPlus(-(CacheTimeout - MaxSkewSec)) =>
             last.res = Error("timestamp header too old", "")

\* the timestamp T+5 under the TTL of 100, rejected
BoundaryValuesWitness ==
    /\ last.op = "checkTimestamp" /\ config.NonceCacheTimeout = CacheTimeout
    /\ SpellsNowPlus(MaxSkewSec)
    /\ last.res = Error("timestamp header from the future", "")

-----------------------------------------------------------------------------
(* nonce.go, step by step: goroutines call InCache of one NonceCache.  A   *)
(* call locks the mutex, gets the nonce from the map, sets it if it does   *)
(* not exist, and unlocks as it returns.  The log has the calls in the     *)
(* order in which they unlocked.                                           *)

\* a mutex that never makes Lock wait
MutexFreeAlways == TRUE

\* sync.Mutex: Lock returns when no goroutine holds the mutex
MutexFree == mutex = 0

\* n.Lock()
Lock(t) ==
    /\ pc[t] = "lock"
    /\ MutexFree
    /\ mutex' = t
    /\ pc' = [pc EXCEPT ![t] = "get"]
    /\ UNCHANGED <<config, clock, cache, req, orig, accepted, evicted, last, local, log>>

\* Get that returns from the hit path without the deferred Unlock
GetReturnsLocked(t) ==
    /\ pc[t] = "get"
    /\ local' = [local EXCEPT ![t].exists = TtlMapExists(cache, clock, local[t].nonce)]
    /\ cache' = TtlMapAfterGet(cache, clock, local[t].nonce)
    /\ pc' = [pc EXCEPT ![t] = IF local'[t].exists THEN "return" ELSE "set"]
    /\ UNCHANGED <<config, clock, req, orig, accepted, evicted, last, mutex, log>>


\* _, exists := n.cache.Get(nonce); if exists { return true }
Get(t) ==
    /\ pc[t] = "get"
    /\ local' = [local EXCEPT ![t].exists = TtlMapExists(cache, clock, local[t].nonce)]
    /\ cache' = TtlMapAfterGet(cache, clock, local[t].nonce)
    /\ pc' = [pc EXCEPT ![t] = IF local'[t].exists THEN "unlock" ELSE "set"]
    /\ UNCHANGED <<config, clock, req, orig, accepted, evicted, last, mutex, log>>

\* n.cache.Set(nonce, "", n.cacheTTL); return false
Set(t) ==
    /\ pc[t] = "set"
    /\ cache' \in TtlMapSet(cache, config.NonceCacheCapacity, clock, local[t].nonce,
                            config.NonceCacheTimeout)
    /\ evicted' = (evicted \/ (/\ local[t].nonce \notin DOMAIN cache
                               /\ Cardinality(DOMAIN cache) >= config.NonceCacheCapacity))
    /\ pc' = [pc EXCEPT ![t] = "unlock"]
    /\ UNCHANGED <<config, clock, req, orig, accepted, last, mutex, local, log>>

\* defer n.Unlock()
Unlock(t) ==
    /\ pc[t] = "unlock"
    /\ mutex' = 0
    /\ log' = Append(log, [nonce |-> local[t].nonce, res |-> local[t].exists])
    /\ pc' = [pc EXCEPT ![t] = "return"]
    /\ UNCHANGED <<config, clock, cache, req, orig, accepted, evicted, last, local>>

\* the nonces of the calls
CacheNonces == {<<"0">>, <<"1">>}

\* the calls made and not returned
InFlight == Cardinality({t \in Threads : pc[t] # "idle"})

InitCache ==
    /\ config \in {NewWithProviders(<<>>, FALSE, c, t, KeyABC) :
                     c \in 1..MaxCapacity, t \in {1}}
    /\ clock = 0
    /\ cache = EmptyMap
    /\ req = NewRequestOf(GET, <<"/">>, NilBody, NoHeader)
    /\ orig = Unsigned(req)
    /\ accepted = {}
    /\ evicted = FALSE
    /\ last = NoCall
    /\ mutex = 0
    /\ pc = [t \in Threads |-> "idle"]
    /\ local = [t \in Threads |-> NoLocal]
    /\ log = <<>>

\* a goroutine calls InCache(nonce)
InCacheCall(t) ==
    /\ pc[t] = "idle"
    /\ Len(log) + InFlight < MaxCalls
    /\ \E n \in CacheNonces :
          local' = [local EXCEPT ![t] = [NoLocal EXCEPT !.nonce = n]]
    /\ pc' = [pc EXCEPT ![t] = "lock"]
    /\ UNCHANGED <<config, clock, cache, req, orig, accepted, evicted, last, mutex, log>>

\* InCache returns
InCacheReturn(t) ==
    /\ pc[t] = "return"
    /\ pc' = [pc EXCEPT ![t] = "idle"]
    /\ local' = [local EXCEPT ![t] = NoLocal]
    /\ UNCHANGED <<config, clock, cache, req, orig, accepted, evicted, last, mutex, log>>

\* the time provider's clock advances
TickCache ==
    /\ clock < MaxCacheClock
    /\ clock' = clock + 1
    /\ UNCHANGED <<config, cache, req, orig, accepted, evicted, last, mutex, pc, local, log>>

NextCache ==
    \/ TickCache
    \/ \E t \in Threads :
          InCacheCall(t) \/ Lock(t) \/ Get(t) \/ Set(t) \/ Unlock(t) \/ InCacheReturn(t)

SpecCache == InitCache /\ [][NextCache]_vars

\* the clock has not advanced since the cache was made
ClockFixed == clock = 0

\* every goroutine has called InCache with the same nonce, none of the calls
\* has returned, and there were no calls before them
AllCalledAtOnce ==
    /\ Len(log) = NThreads
    /\ \A t \in Threads : pc[t] = "return" /\ local[t].nonce = log[1].nonce

\* C2: when all the goroutines are in a call of InCache with the same nonce,
\* which was not in the cache, and the clock has not advanced, exactly one
\* of the calls returns false and each of the others true.
OneFirstSeen ==
    (ClockFixed /\ AllCalledAtOnce)
    => \E t \in Threads :
          /\ ~local[t].exists
          /\ \A u \in Threads \ {t} : local[u].exists

OneFirstSeenWitness ==
    /\ ClockFixed /\ AllCalledAtOnce
    /\ Cardinality(DOMAIN cache) < config.NonceCacheCapacity
    /\ Cardinality({t \in Threads : local[t].exists}) = NThreads - 1

\* C10: with the clock not advanced and fewer distinct nonces than the
\* capacity, a call returned false exactly when no earlier call had the
\* same nonce, whatever calls with other nonces came in between.
FalseOnFirstCallOnly ==
    (/\ ClockFixed
     /\ Cardinality({log[i].nonce : i \in 1..Len(log)}) < config.NonceCacheCapacity)
    => \A i \in 1..Len(log) :
          log[i].res <=> \E j \in 1..(i - 1) : log[j].nonce = log[i].nonce

\* a call for n, a call for another nonce, and a second call for n
FalseOnFirstCallOnlyWitness ==
    /\ ClockFixed
    /\ Len(log) = 3
    /\ log[1].nonce = log[3].nonce /\ log[2].nonce # log[1].nonce
    /\ ~log[1].res /\ ~log[2].res /\ log[3].res
    /\ Cardinality({log[i].nonce : i \in 1..Len(log)}) < config.NonceCacheCapacity

-----------------------------------------------------------------------------
(* AuthenticateRequestWithKey, step by step: each goroutine of the server  *)
(* authenticates a copy of one signed request.  A call checks the MAC,     *)
(* checks the timestamp against the clock, calls InCache, and returns.     *)

\* the request, signed at time 0 by a client that has the Service's key
SignedRequest(cfg) ==
    SignResult(cfg, NewRequestOf(POST, <<"/", "x">>, Body(<<"a">>), Header(<<"b">>)),
               KeyABC, HexEncode(FakeRNGBytes(NonceBytes)), 0).r

InitAuth ==
    /\ config \in {NewWithProviders(<<CustomHeader>>, TRUE, c[1], c[2], KeyABC) :
                     c \in {<<1, SmallTTL>>, <<0, 0>>}}
    /\ clock = 0
    /\ cache = EmptyMap
    /\ req = SignedRequest(config)
    /\ orig = [signed |-> TRUE, r |-> req, key |-> KeyABC, at |-> 0]
    /\ accepted = {}
    /\ evicted = FALSE
    /\ last = NoCall
    /\ mutex = 0
    /\ pc = [t \in Threads |-> "idle"]
    /\ local = [t \in Threads |-> NoLocal]
    /\ log = <<>>

\* the calls that have returned
Returned == {t \in Threads : pc[t] = "done"}

AuthenticateCall(t, secretKey) ==
    /\ pc[t] = "idle"
    /\ local' = [local EXCEPT ![t] = [NoLocal EXCEPT
                    !.nonce = HeaderGet(Received(req).header[XMailgunNonce]),
                    !.key = secretKey,
                    !.before = Cardinality(Returned)]]
    /\ pc' = [pc EXCEPT ![t] = "mac"]
    /\ UNCHANGED <<config, clock, cache, req, orig, accepted, evicted, last, mutex, log>>

\* a handler calls s.AuthenticateRequestWithKey(r, secretKey)
AuthenticateRequestWithKeyCall(t) == \E k \in Keys : AuthenticateCall(t, k)

\* a handler calls s.AuthenticateRequest(r)
AuthenticateRequestCall(t) ==
    /\ config.secretKey # NilKey
    /\ AuthenticateCall(t, config.secretKey)

\* the headers are read and the MAC is checked
CheckMACStep(t) ==
    /\ pc[t] = "mac"
    /\ LET e == CheckRequest(config, Received(req), local[t].key)
       IN  /\ local' = [local EXCEPT ![t].res = e]
           /\ pc' = [pc EXCEPT ![t] = IF e = Nil THEN "timestamp" ELSE "return"]
    /\ UNCHANGED <<config, clock, cache, req, orig, accepted, evicted, last, mutex, log>>

\* the timestamp is checked against the time the time provider returns
CheckTimestampStep(t) ==
    /\ pc[t] = "timestamp"
    /\ LET e == checkTimestamp(HeaderGet(Received(req).header[XMailgunTimestamp]),
                               clock, config.NonceCacheTimeout)
       IN  /\ local' = [local EXCEPT ![t].res = e]
           /\ pc' = [pc EXCEPT ![t] = IF e = Nil THEN "lock" ELSE "return"]
    /\ UNCHANGED <<config, clock, cache, req, orig, accepted, evicted, last, mutex, log>>

\* the call returns: the error of a check, or the replay error when InCache
\* returned true, or nil
AuthenticateReturn(t) ==
    /\ pc[t] = "return"
    /\ local' = [local EXCEPT ![t].res =
                    IF local[t].res # Nil THEN local[t].res
                    ELSE IF local[t].exists THEN Error("nonce already in cache", "")
                    ELSE Nil]
    /\ pc' = [pc EXCEPT ![t] = "done"]
    /\ UNCHANGED <<config, clock, cache, req, orig, accepted, evicted, last, mutex, log>>

NextAuth ==
    \/ Tick
    \/ \E t \in Threads :
          \/ AuthenticateRequestCall(t)
          \/ AuthenticateRequestWithKeyCall(t)
          \/ CheckMACStep(t)
          \/ CheckTimestampStep(t)
          \/ Lock(t) \/ Get(t) \/ Set(t) \/ Unlock(t)
          \/ AuthenticateReturn(t)

SpecAuth == InitAuth /\ [][NextAuth]_vars

\* every goroutine has authenticated the request with the key it was signed
\* with, all of them at times within the timestamp window of the signature
AllAuthenticated ==
    /\ \A t \in Threads : pc[t] = "done" /\ local[t].key = orig.key
    /\ WithinWindow(orig.at, clock, config.NonceCacheTimeout)

\* C3: when every goroutine has authenticated a copy of the signed request
\* with the right key, at times within the timestamp window, exactly one of
\* the calls returned nil and each of the others the replay error, however
\* the steps of the calls interleaved.
OneAdmission ==
    AllAuthenticated =>
       \E t \in Threads :
          /\ local[t].res = Nil
          /\ \A u \in Threads \ {t} : local[u].res = ReplayError

\* all the calls were made before any of them returned, and time passed
OneAdmissionWitness ==
    /\ AllAuthenticated
    /\ \A t \in Threads : local[t].before = 0
    /\ clock > 0
    /\ \E t \in Threads :
          /\ local[t].res = Nil
          /\ \A u \in Threads \ {t} : local[u].res = ReplayError

-----------------------------------------------------------------------------
(* The request is changed between the client that signed it and the        *)
(* Service: in its verb, its URI, its body, a header or the signature.     *)

\* the MAC of the fields of r under the key
MACOf(cfg, r, secretKey) ==
    computeMAC(secretKey, cfg.SignVerbAndURI, r.method, r.uri,
               HeaderGet(r.header[XMailgunTimestamp]), HeaderGet(r.header[XMailgunNonce]),
               SignedBodyBytes(r), HeaderValuesOf(r, cfg.HeadersToSign))

\* the values a header may be given, or none
HeaderChanges(h) ==
    {NoHeader} \cup
    (CASE h = XMailgunNonce -> {Header(n) : n \in HexDigest(NonceBytes)}
       [] h = XMailgunTimestamp -> {Header(<<"0">>), Header(<<"1">>), Header(<<"+", "0">>)}
       [] h = XMailgunSignatureVersion -> {Header(<<"1">>)}
       [] OTHER -> {Header(<<>>), Header(<<"b">>), Header(<<"c">>)})

\* the signatures a request may be given: none, text that is not hex, hex
\* that is no MAC, the signature in uppercase, and the MAC of the request as
\* it is now under a key of the attacker's
SignatureChanges(cfg, r) ==
    {NoSignature, SignatureText(<<"z", "z">>), SignatureText(<<"0", "0">>),
     HexOfMAC(r.signature.mac, TRUE), HexOfMAC(MACOf(cfg, r, KeyXYZ), FALSE)}

\* the requests that differ from r in one field
Changed(cfg, r) ==
    ({[r EXCEPT !.method = m] : m \in {GET, POST}}
     \cup {[r EXCEPT !.uri = u] : u \in {<<"/">>, <<"/", "x">>}}
     \cup {[r EXCEPT !.body = b] : b \in {Body(<<>>), Body(<<"a">>)}}
     \cup UNION {{[r EXCEPT !.header[h] = v] : v \in HeaderChanges(h)} : h \in HeaderNames}
     \cup {[r EXCEPT !.signature = g] : g \in SignatureChanges(cfg, r)})
    \ {r}

\* the number of fields in which r differs from the request as signed
Differences(r) ==
    Cardinality({h \in HeaderNames : r.header[h] # orig.r.header[h]})
    + (IF r.method # orig.r.method THEN 1 ELSE 0)
    + (IF r.uri # orig.r.uri THEN 1 ELSE 0)
    + (IF r.body # orig.r.body THEN 1 ELSE 0)
    + (IF r.signature # orig.r.signature THEN 1 ELSE 0)

Tamper ==
    /\ orig.signed
    /\ \E r \in Changed(config, req) :
          /\ Differences(r) <= 1
          /\ req' = r
    /\ last' = NoCall
    /\ UNCHANGED <<config, clock, cache, orig, accepted, evicted>>
    /\ idle

NextTamper ==
    \/ SignRequest
    \/ SignRequestWithKey
    \/ Tamper
    \/ AuthenticateRequest
    \/ AuthenticateRequestWithKey

SpecTamper == Init /\ [][NextTamper]_vars

InvalidSignature == Error("invalid signature", "")

SignedFields(cfg, r) ==
    <<HeaderGet(r.header[XMailgunTimestamp]), HeaderGet(r.header[XMailgunNonce]),
      SignedBodyBytes(r), HeaderValuesOf(r, cfg.HeadersToSign),
      IF cfg.SignVerbAndURI THEN <<r.method, r.uri>> ELSE <<>>>>

\* the request holds the signature it was given, a nonce, a timestamp and
\* every header of HeadersToSign, and a signed field is not as it was signed
SignedFieldChanged ==
    /\ orig.signed
    /\ req.signature = orig.r.signature
    /\ HeaderGet(req.header[XMailgunNonce]) # <<>>
    /\ HeaderGet(req.header[XMailgunTimestamp]) # <<>>
    /\ \A i \in 1..Len(config.HeadersToSign) : req.header[config.HeadersToSign[i]].set
    /\ SignedFields(config, req) # SignedFields(config, orig.r)

\* C7: when a signed field of a signed request was changed - the body, the
\* timestamp, the nonce, the value of a header of HeadersToSign, or with
\* SignVerbAndURI the verb or the URI - authenticating it with the key it
\* was signed with fails with 'invalid signature'.
TamperRejected ==
    (AuthenticatedWithSigningKey /\ SignedFieldChanged)
    => last.res = InvalidSignature

\* the verb was changed
TamperRejectedWitness ==
    /\ AuthenticatedWithSigningKey /\ SignedFieldChanged
    /\ req.method # orig.r.method
    /\ last.res = InvalidSignature

-----------------------------------------------------------------------------
(* nonce.go over time: InCache is called, one call after the other, while  *)
(* the clock of the time provider advances.  The log has the calls with    *)
(* the times at which they were made.                                      *)

InitExpiry ==
    /\ config \in {NewWithProviders(<<>>, FALSE, c, t, KeyABC) :
                     c \in 1..MaxCapacity, t \in {1, 2, SmallTTL}}
    /\ clock = 0
    /\ cache = EmptyMap
    /\ req = NewRequestOf(GET, <<"/">>, NilBody, NoHeader)
    /\ orig = Unsigned(req)
    /\ accepted = {}
    /\ evicted = FALSE
    /\ last = NoCall
    /\ mutex = 0
    /\ pc = [t \in Threads |-> "idle"]
    /\ local = [t \in Threads |-> NoLocal]
    /\ log = <<>>

\* nc.InCache(nonce), the whole call
InCache ==
    /\ Len(log) < MaxCalls
    /\ \E n \in CacheNonces :
          /\ cache' \in InCacheMaps(cache, config.NonceCacheCapacity,
                                    config.NonceCacheTimeout, clock, n)
          /\ evicted' = (evicted \/ InCacheFrees(cache, config.NonceCacheCapacity,
                                                 config.NonceCacheTimeout, clock, n))
          /\ log' = Append(log, [nonce |-> n, res |-> InCacheExists(cache, clock, n),
                                 at |-> clock])
    /\ UNCHANGED <<config, clock, req, orig, accepted, last, mutex, pc, local>>

\* the time provider's clock advances
TickExpiry ==
    /\ clock < MaxClock
    /\ clock' = clock + 1
    /\ UNCHANGED <<config, cache, req, orig, accepted, evicted, last, mutex, pc, local, log>>

NextExpiry == TickExpiry \/ InCache

SpecExpiry == InitExpiry /\ [][NextExpiry]_vars

\* the calls before call i that inserted its nonce
Insertions(i) == {j \in 1..(i - 1) : log[j].nonce = log[i].nonce /\ ~log[j].res}

\* the last of them
LastInsertion(i) == CHOOSE j \in Insertions(i) : \A k \in Insertions(i) : k <= j

Missing(r, f) == IF f = XMailgunSignature THEN r.signature.kind = "absent"
                 ELSE ~r.header[f].set

FourFields == {XMailgunNonce, XMailgunTimestamp, XMailgunSignature, XMailgunSignatureVersion}

\* C12: when one of the four fields - nonce, timestamp, signature,
\* signature version - is missing from the request, and only that one,
\* AuthenticateRequestWithKey fails with 'header not found' and the name of
\* the header of that field.
MissingFieldNamed ==
    (last.op = "auth" /\ last.key \in Keys) =>
       \A f \in FourFields :
          (Missing(req, f) /\ \A g \in FourFields \ {f} : ~Missing(req, g))
          => last.res = Error("header not found", f)

\* a header named in HeadersToSign is not present on the request
SignedHeaderMissing(r) ==
    \E i \in 1..Len(config.HeadersToSign) : ~r.header[config.HeadersToSign[i]].set

\* C13: on a request that lacks a header named in HeadersToSign, a call of
\* SignRequestWithKey fails and leaves the request as it was, none of the
\* four headers attached, and a call of AuthenticateRequestWithKey fails
\* and leaves the nonce cache as it was.
NoPartialSigning ==
    [][/\ (last'.op = "sign" /\ SignedHeaderMissing(req))
          => (/\ last'.res # Nil
              /\ req' = req
              /\ orig' = orig)
       /\ (last'.op = "auth" /\ SignedHeaderMissing(req))
          => (/\ last'.res # Nil
              /\ cache' = cache
              /\ accepted' = accepted)]_vars

\* the header was taken off a signed request, and the call that
\* authenticates it with the key of the signature fails for that
NoPartialSigningWitness ==
    /\ last.op = "auth" /\ last.key = orig.key
    /\ orig.signed /\ SignedHeaderMissing(req)
    /\ last.res = Error("header not found in request.", CustomHeader)
    /\ cache = EmptyMap

-----------------------------------------------------------------------------
(* A Service that read no key from disk.  Its callers use the methods that *)
(* work with the Service's key and the methods that are passed a key, and  *)
(* pass these a key or nil.                                                *)

InitNoKey == Init /\ config.secretKey = NilKey

\* s.SignRequestWithKey(r, nil)
SignRequestWithNilKey == Sign(NilKey, "SignRequestWithKey")

\* s.AuthenticateRequestWithKey(r, nil)
AuthenticateRequestWithNilKey == Authenticate(NilKey, "AuthenticateRequestWithKey")

NextNoKey ==
    \/ SignRequest
    \/ SignRequestWithKey
    \/ SignRequestWithNilKey
    \/ AuthenticateRequest
    \/ AuthenticateRequestWithKey
    \/ AuthenticateRequestWithNilKey

SpecNoKey == InitNoKey /\ [][NextNoKey]_vars

NotLoaded == Error("service not loaded with key.", "")

\* C14: on a Service without a key, every call of SignRequest and of
\* AuthenticateRequest returns 'service not loaded with key.' and leaves
\* the request and the nonce cache as they were; SignRequestWithKey with a
\* key signs a request that has the headers to sign, and
\* AuthenticateRequestWithKey with that key accepts the request.
NoKeyNoEffect ==
    /\ [][last'.method \in {"SignRequest", "AuthenticateRequest"}
          => (/\ last'.res = NotLoaded
              /\ req' = req /\ orig' = orig
              /\ cache' = cache /\ accepted' = accepted)]_vars
    /\ []((last.method = "SignRequestWithKey" /\ last.key \in Keys
           /\ ~SignedHeaderMissing(req))
          => (last.res = Nil /\ orig.signed /\ req = orig.r /\ orig.key = last.key))
    /\ []((last.method = "AuthenticateRequestWithKey" /\ last.key \in Keys
           /\ orig.signed /\ req = orig.r /\ last.key = orig.key /\ ~last.seen
           /\ WithinWindow(orig.at, clock, config.NonceCacheTimeout))
          => last.res = Nil)

\* a request signed with a key passed to SignRequestWithKey, refused by
\* AuthenticateRequest
NoKeyNoEffectWitness ==
    /\ config.secretKey = NilKey
    /\ last.method = "AuthenticateRequest" /\ last.res = NotLoaded
    /\ orig.signed /\ req = orig.r /\ orig.key \in Keys
    /\ HeaderGet(req.header[XMailgunNonce]) \notin DOMAIN cache

\* C15: on a Service without a key, SignRequestWithKey and
\* AuthenticateRequestWithKey passed nil for the key return 'service not
\* loaded with key.'.
NilKeyRefused ==
    (last.method \in {"SignRequestWithKey", "AuthenticateRequestWithKey"}
     /\ last.key = NilKey)
    => last.res = NotLoaded

\* C16: every call of AuthenticateRequest and of AuthenticateRequestWithKey
\* emits exactly one signal, "success" when it returns nil and "failure"
\* when it returns an error, the missing key included.
OneSignalPerCall ==
    last.op = "auth"
    => last.metrics = <<IF last.res = Nil THEN "success" ELSE "failure">>

-----------------------------------------------------------------------------
(* Signing, with the providers the Service was built with: the random      *)
(* provider is FakeRNG or CSPRNG, the time provider is frozen at the time  *)
(* of the call.                                                            *)

\* time.Unix(1330837567, 0), the frozen time of TestSignRequest
FrozenTime == 1330837567

SignTimes == {0, 7, 10, FrozenTime}

Providers == {"FakeRNG", "CSPRNG"}

\* randomProvider.Bytes(n)
ProviderBytes(p, n) == IF p = "FakeRNG" THEN {FakeRNGBytes(n)} ELSE CSPRNGBytes(n)

\* a request that carries a nonce and a timestamp header already
StampedRequest ==
    [NewRequestOf(POST, <<"/", "x">>, Body(<<"a">>), Header(<<"b">>)) EXCEPT
       !.header[XMailgunNonce] = Header(<<"f", "f">>),
       !.header[XMailgunTimestamp] = Header(<<"1">>)]

InitSign ==
    /\ config \in Configs
    /\ clock \in SignTimes
    /\ cache = EmptyMap
    /\ req \in BaseRequests \cup {StampedRequest}
    /\ orig = Unsigned(req)
    /\ accepted = {}
    /\ evicted = FALSE
    /\ last = NoCall
    /\ mutex = 0
    /\ pc = [t \in Threads |-> "idle"]
    /\ local = [t \in Threads |-> NoLocal]
    /\ log = <<>>

\* s.SignRequestWithKey(r, secretKey) on a Service built with provider p;
\* the log keeps the bytes the random provider returned, the time the time
\* provider returned, and the request as it was before the call
SignRequestWithKeyOf(p) ==
    /\ log = <<>>
    /\ \E secretKey \in Keys, b \in ProviderBytes(p, NonceBytes) :
         LET res == SignResult(config, req, secretKey, HexEncode(b), clock)
         IN  /\ req' = res.r
             /\ orig' = IF res.err = Nil
                        THEN [signed |-> TRUE, r |-> res.r, key |-> secretKey,
                              at |-> clock]
                        ELSE orig
             /\ last' = [op |-> "sign", method |-> "SignRequestWithKey",
                         key |-> secretKey, res |-> res.err, seen |-> FALSE,
                         attempt |-> 0, metrics |-> <<>>]
             /\ log' = <<[provider |-> p, bytes |-> b, now |-> clock,
                          before |-> req]>>
    /\ UNCHANGED <<config, clock, cache, accepted, evicted, mutex, pc, local>>

SignWithFakeRNG == SignRequestWithKeyOf("FakeRNG")

SignWithCSPRNG == SignRequestWithKeyOf("CSPRNG")

NextSign == SignWithFakeRNG \/ SignWithCSPRNG

SpecSign == InitSign /\ [][NextSign]_vars

LowerHex == {HexDigits[i] : i \in 1..16}

\* "000102030405060708090a0b0c0d0e0f"
FakeNonce ==
    <<"0", "0", "0", "1", "0", "2", "0", "3", "0", "4", "0", "5", "0", "6", "0", "7",
      "0", "8", "0", "9", "0", "a", "0", "b", "0", "c", "0", "d", "0", "e", "0", "f">>

\* "1330837567"
FrozenTimestamp == <<"1", "3", "3", "0", "8", "3", "7", "5", "6", "7">>

\* byte i of the 2n hex characters s
ByteOfHex(s, i) ==
    LET v(c) == (CHOOSE j \in 1..16 : HexDigits[j] = c) - 1
    IN  16 * v(s[2 * i - 1]) + v(s[2 * i])

\* the MAC of the canonical encoding of the signed request r under key k
SignedMAC(cfg, r, k) ==
    [key |-> k.bytes,
     data |-> CanonicalBytes(cfg.SignVerbAndURI, r.method, r.uri,
                             HeaderGet(r.header[XMailgunTimestamp]),
                             HeaderGet(r.header[XMailgunNonce]),
                             SignedBodyBytes(r),
                             [i \in 1..Len(cfg.HeadersToSign) |->
                                 HeaderGet(r.header[cfg.HeadersToSign[i]])])]

\* C17: a SignRequestWithKey that returns nil leaves the request with
\* exactly four fields set: the nonce header is 32 lowercase hex characters
\* that spell the 16 bytes of the random provider, the timestamp header is
\* the decimal of the time provider's Unix seconds, the signature is the
\* lowercase hex of the MAC of the canonical encoding under the key passed,
\* the version header is "2", and the method, URI, body and other headers
\* are as before; with FakeRNG the nonce header is
\* 000102030405060708090a0b0c0d0e0f and at time 1330837567 the timestamp
\* header is 1330837567.
FourFieldsAttached ==
    (log # <<>> /\ last.res = Nil)
    => LET c == log[1]
           nonce == req.header[XMailgunNonce]
           timestamp == req.header[XMailgunTimestamp]
       IN  /\ nonce.set /\ Len(nonce.v) = 2 * NonceBytes
           /\ \A i \in 1..Len(nonce.v) : nonce.v[i] \in LowerHex
           /\ \A i \in 1..NonceBytes : ByteOfHex(nonce.v, i) = c.bytes[i]
           /\ timestamp.set
           /\ \A i \in 1..Len(timestamp.v) : IsDigit(timestamp.v[i])
           /\ DigitsValue(timestamp.v) = c.now
           /\ Len(timestamp.v) = 1 \/ timestamp.v[1] # "0"
           /\ req.signature = HexOfMAC(SignedMAC(config, req, last.key), FALSE)
           /\ req.header[XMailgunSignatureVersion] = Header(<<"2">>)
           /\ req.method = c.before.method /\ req.uri = c.before.uri
           /\ req.body = c.before.body
           /\ req.header[CustomHeader] = c.before.header[CustomHeader]
           /\ c.provider = "FakeRNG" => nonce.v = FakeNonce
           /\ c.now = FrozenTime => timestamp.v = FrozenTimestamp

\* signed with FakeRNG at the frozen time, over a request that carried a
\* nonce and a timestamp
FourFieldsAttachedWitness ==
    /\ log # <<>> /\ last.res = Nil
    /\ log[1].provider = "FakeRNG" /\ log[1].now = FrozenTime
    /\ log[1].before = StampedRequest
    /\ req.header[XMailgunNonce] = Header(FakeNonce)
    /\ req.header[XMailgunTimestamp] = Header(FrozenTimestamp)

-----------------------------------------------------------------------------
(* Package secret: the sealing Service.                                    *)
(*                                                                         *)
(* In the behaviours of the sealing Service the variables hold: config the *)
(* Service (its secretKey), req the *SealedBytes the caller holds (the     *)
(* value the last Seal returned, as the caller left it), orig the last     *)
(* successful Seal (plaintext, key and SealedBytes returned), last the     *)
(* last call and what it returned.                                         *)

\* the length of a key and of a nonce of secretbox
SecretKeyLength == 32
NonceLength == 24

\* a []byte result: nil, or its bytes
NilBytes == [nil |-> TRUE, bytes |-> <<>>]

\* the slice secretbox.Open returns when appending n bytes to a nil slice:
\* nil when there is nothing to append
Appended(b) == [nil |-> b = <<>>, bytes |-> b]

\* a *SealedBytes: nil, or the struct
NilSealed == [nil |-> TRUE, Ciphertext |-> <<>>, Nonce |-> <<>>]
SealedBytes(c, n) == [nil |-> FALSE, Ciphertext |-> c, Nonce |-> n]

\* b with bit j changed
FlipBit(b, j) == IF (b \div (2 ^ j)) % 2 = 1 THEN b - 2 ^ j ELSE b + 2 ^ j

\* secretbox: byte i of the stream that key and nonce generate.  The
\* cipher's stream is idealised: a function of the key, the nonce and the
\* position.
KeyStream(key, nonce, i) ==
    (key[1 + (i % SecretKeyLength)] + nonce[1 + (i % NonceLength)] + 7 * i) % 256

\* secretbox: the authenticator of a box under a key and a nonce, idealised
\* as the triple it was computed from (no two triples share an
\* authenticator); flip holds the bits of it that were changed since
Authenticator(key, nonce, box) ==
    [key |-> key, nonce |-> nonce, box |-> box, flip |-> {}]

\* secretbox.Seal(nil, message, nonce, key): the authenticator, then the
\* message under the stream
SecretboxSeal(message, nonce, key) ==
    LET box == [i \in 1..Len(message) |->
                   (message[i] + KeyStream(key, nonce, i)) % 256]
    IN  <<Authenticator(key, nonce, box)>> \o box

\* secretbox.Open(nil, box, nonce, key)
SecretboxOpen(box, nonce, key) ==
    IF box = <<>> \/ box[1] # Authenticator(key, nonce, Tail(box))
    THEN [ok |-> FALSE, out |-> NilBytes]
    ELSE [ok |-> TRUE,
          out |-> Appended([i \in 1..(Len(box) - 1) |->
                               (box[i + 1] + 256 - KeyStream(key, nonce, i)) % 256])]

KeyIsNil == Error("secret key is nil", "")

UnableToDecrypt == Error("unable to decrypt message", "")

\* nonceSliceToArray that takes bytes of any length
nonceSliceToArrayAnyLength(bytes) == Nil


\* nonceSliceToArray(bytes): the error
nonceSliceToArray(bytes) ==
    IF Len(bytes) # NonceLength THEN Error("wrong nonce length", Len(bytes)) ELSE Nil

\* s.SealWithKey(value, secretKey), with the bytes the random provider
\* returned to generateNonce
SealWithKeyResult(s, value, secretKey, random) ==
    IF secretKey.nil THEN [err |-> KeyIsNil, sealed |-> NilSealed]
    ELSE IF nonceSliceToArray(random) # Nil
    THEN [err |-> Error("unable to generate nonce", ""), sealed |-> NilSealed]
    ELSE [err |-> Nil,
          sealed |-> SealedBytes(SecretboxSeal(value, random, secretKey.bytes), random)]

\* OpenWithKey that opens with the key of the Service
OpenWithServiceKey(s, e, secretKey) ==
    IF s.secretKey.nil THEN [err |-> KeyIsNil, out |-> NilBytes]
    ELSE IF e.nil THEN [err |-> Error("panic", "nil pointer dereference"), out |-> NilBytes]
    ELSE IF nonceSliceToArray(e.Nonce) # Nil
    THEN [err |-> nonceSliceToArray(e.Nonce), out |-> NilBytes]
    ELSE LET opened == SecretboxOpen(e.Ciphertext, e.Nonce, s.secretKey.bytes)
         IN  IF ~opened.ok THEN [err |-> UnableToDecrypt, out |-> NilBytes]
             ELSE [err |-> Nil, out |-> opened.out]

\* OpenWithKey that returns what the box holds without authenticating it
OpenWithKeyUnauthenticated(s, e, secretKey) ==
    IF secretKey.nil THEN [err |-> KeyIsNil, out |-> NilBytes]
    ELSE IF e.nil THEN [err |-> Error("panic", "nil pointer dereference"), out |-> NilBytes]
    ELSE IF nonceSliceToArray(e.Nonce) # Nil
    THEN [err |-> nonceSliceToArray(e.Nonce), out |-> NilBytes]
    ELSE [err |-> Nil,
          out |-> Appended([i \in 1..(Len(e.Ciphertext) - 1) |->
                             IF e.Ciphertext[i + 1] \in 0..255
                             THEN (e.Ciphertext[i + 1] + 256
                                   - KeyStream(secretKey.bytes, e.Nonce, i)) % 256
                             ELSE 0])]

\* OpenWithKey that converts the nonce before it looks at the key
OpenWithKeyNonceFirst(s, e, secretKey) ==
    IF e.nil THEN [err |-> Error("panic", "nil pointer dereference"), out |-> NilBytes]
    ELSE IF nonceSliceToArray(e.Nonce) # Nil
    THEN [err |-> nonceSliceToArray(e.Nonce), out |-> NilBytes]
    ELSE IF secretKey.nil THEN [err |-> KeyIsNil, out |-> NilBytes]
    ELSE LET opened == SecretboxOpen(e.Ciphertext, e.Nonce, secretKey.bytes)
         IN  IF ~opened.ok THEN [err |-> UnableToDecrypt, out |-> NilBytes]
             ELSE [err |-> Nil, out |-> opened.out]

\* s.OpenWithKey(e, secretKey).  With a key, a nil e is dereferenced.
OpenWithKeyResult(s, e, secretKey) ==
    IF secretKey.nil THEN [err |-> KeyIsNil, out |-> NilBytes]
    ELSE IF e.nil THEN [err |-> Error("panic", "nil pointer dereference"), out |-> NilBytes]
    ELSE IF nonceSliceToArray(e.Nonce) # Nil
    THEN [err |-> nonceSliceToArray(e.Nonce), out |-> NilBytes]
    ELSE LET opened == SecretboxOpen(e.Ciphertext, e.Nonce, secretKey.bytes)
         IN  IF ~opened.ok THEN [err |-> UnableToDecrypt, out |-> NilBytes]
             ELSE [err |-> Nil, out |-> opened.out]

\* the keys of the model: all zeros (TestEncryptDecryptCycleWithKey), and
\* random bytes
ZeroKey == Key([i \in 1..SecretKeyLength |-> 0])
RandomKey == Key(FakeRNGBytes(SecretKeyLength))
SecretKeys == {ZeroKey, RandomKey}

\* the plaintexts: "", "h", "hi"
Plaintexts == {<<>>, <<104>>, <<104, 105>>}

\* NewWithKeyBytes(keyBytes)
NewWithKeyBytes(keyBytes) == [secretKey |-> keyBytes]

NotSealed == [sealed |-> FALSE, plaintext |-> <<>>, key |-> NilKey, e |-> NilSealed]

InitSeal ==
    /\ config \in {NewWithKeyBytes(k) : k \in SecretKeys \cup {NilKey}}
    /\ clock = 0
    /\ cache = EmptyMap
    /\ req = NilSealed
    /\ orig = NotSealed
    /\ accepted = {}
    /\ evicted = FALSE
    /\ last = NoCall
    /\ mutex = 0
    /\ pc = [t \in Threads |-> "idle"]
    /\ local = [t \in Threads |-> NoLocal]
    /\ log = <<>>

\* sealed, err := s.SealWithKey(value, secretKey), called as method
SealCall(secretKey, method) ==
    \E value \in Plaintexts, p \in Providers :
      \E random \in ProviderBytes(p, NonceLength) :
        LET res == SealWithKeyResult(config, value, secretKey, random)
        IN  /\ req' = res.sealed
            /\ orig' = IF res.err = Nil
                       THEN [sealed |-> TRUE, plaintext |-> value, key |-> secretKey,
                             e |-> res.sealed]
                       ELSE orig
            /\ last' = [op |-> "seal", method |-> method, key |-> secretKey,
                        res |-> res.err, out |-> NilBytes]
            /\ UNCHANGED <<config, clock, cache, accepted, evicted>>
            /\ idle

\* out, err := s.OpenWithKey(sealed, secretKey), called as method
OpenCall(secretKey, method) ==
    LET res == OpenWithKeyResult(config, req, secretKey)
    IN  /\ last' = [op |-> "open", method |-> method, key |-> secretKey,
                    res |-> res.err, out |-> res.out]
        /\ UNCHANGED <<config, clock, cache, req, orig, accepted, evicted>>
        /\ idle

Seal == SealCall(config.secretKey, "Seal")

SealWithKey == \E k \in SecretKeys \cup {NilKey} : SealCall(k, "SealWithKey")

Open == OpenCall(config.secretKey, "Open")

OpenWithKey == \E k \in SecretKeys \cup {NilKey} : OpenCall(k, "OpenWithKey")

\* the bits of the 16-byte authenticator that the model changes
AuthenticatorBits == {0, 127}

\* the ciphertexts that differ from c in one bit
BitChanges(c) ==
    {[c EXCEPT ![1] = [c[1] EXCEPT !.flip = {j}]] : j \in AuthenticatorBits}
    \cup UNION {{[c EXCEPT ![i] = FlipBit(c[i], j)] : j \in 0..7} : i \in 2..Len(c)}

\* the nonces that differ from n: another 24 bytes, its first 23 bytes, its
\* bytes and one more, and no bytes
NonceChanges(n) ==
    {[n EXCEPT ![1] = FlipBit(n[1], 0)], [n EXCEPT ![NonceLength] = FlipBit(n[NonceLength], 7)],
     SubSeq(n, 1, NonceLength - 1), Append(n, 0), <<>>}

\* the SealedBytes is changed on its way to Open: a bit of the ciphertext,
\* the ciphertext cut to nothing, or the nonce
TamperSealed ==
    /\ orig.sealed /\ req = orig.e
    /\ \/ \E c \in BitChanges(req.Ciphertext) \cup {<<>>} : req' = [req EXCEPT !.Ciphertext = c]
       \/ \E n \in NonceChanges(req.Nonce) : req' = [req EXCEPT !.Nonce = n]
    /\ last' = NoCall
    /\ UNCHANGED <<config, clock, cache, orig, accepted, evicted>>
    /\ idle

NextSeal == Seal \/ SealWithKey \/ Open \/ OpenWithKey \/ TamperSealed

SpecSeal == InitSeal /\ [][NextSeal]_vars

\* C18: Open and OpenWithKey, with the key of the Seal or SealWithKey that
\* returned the SealedBytes, return its plaintext and no error, for the
\* empty plaintext too, with the key of the Service and with a key passed.
OpenReturnsPlaintext ==
    (last.op = "open" /\ orig.sealed /\ req = orig.e /\ last.key = orig.key)
    => (last.res = Nil /\ last.out.bytes = orig.plaintext)

\* the empty plaintext sealed with a key passed, opened with the same key
\* as the key of the Service
OpenReturnsPlaintextWitness ==
    /\ last.op = "open" /\ last.method = "Open" /\ last.res = Nil
    /\ orig.sealed /\ req = orig.e /\ last.key = orig.key
    /\ orig.plaintext = <<>> /\ last.out.bytes = <<>>

\* the SealedBytes differs from the one sealed in a bit of the ciphertext
CiphertextChanged ==
    /\ req.Nonce = orig.e.Nonce
    /\ Len(req.Ciphertext) = Len(orig.e.Ciphertext)
    /\ req.Ciphertext # orig.e.Ciphertext

\* the SealedBytes differs from the one sealed in its nonce, of 24 bytes
NonceChanged ==
    /\ req.Ciphertext = orig.e.Ciphertext
    /\ Len(req.Nonce) = NonceLength
    /\ req.Nonce # orig.e.Nonce

\* C19: OpenWithKey with a key returns 'unable to decrypt message' and no
\* plaintext when the key is not the key of the seal, when a bit of the
\* ciphertext was changed, and when the nonce was changed to another 24
\* bytes.
ChangedIsNotOpened ==
    (/\ last.op = "open" /\ ~last.key.nil /\ orig.sealed /\ ~req.nil
     /\ \/ req = orig.e /\ last.key # orig.key
        \/ CiphertextChanged
        \/ NonceChanged)
    => (last.res = UnableToDecrypt /\ last.out = NilBytes)

\* a bit of the encrypted bytes changed, opened with the key of the seal
ChangedIsNotOpenedWitness ==
    /\ last.op = "open" /\ last.key = orig.key /\ orig.sealed /\ ~req.nil
    /\ CiphertextChanged
    /\ req.Ciphertext[1] = orig.e.Ciphertext[1]
    /\ last.res = UnableToDecrypt

\* C20: on a Service without a key, Seal returns 'secret key is nil' and a
\* nil SealedBytes, Open returns 'secret key is nil' and no plaintext for
\* every argument, nil included; SealWithKey with a key seals, and
\* OpenWithKey with that key opens what it sealed.
NilKeyIsRefused ==
    config.secretKey.nil
    => /\ last.method = "Seal" => (last.res = KeyIsNil /\ req = NilSealed)
       /\ last.method = "Open" => (last.res = KeyIsNil /\ last.out = NilBytes)
       /\ (last.method = "SealWithKey" /\ ~last.key.nil)
          => (last.res = Nil /\ ~req.nil /\ req = orig.e /\ orig.key = last.key)
       /\ (last.method = "OpenWithKey" /\ orig.sealed /\ req = orig.e
           /\ last.key = orig.key)
          => (last.res = Nil /\ last.out.bytes = orig.plaintext)

\* Open of the nil SealedBytes that the failed Seal returned
NilKeyIsRefusedWitness ==
    /\ config.secretKey.nil
    /\ last.method = "Open" /\ last.res = KeyIsNil
    /\ req = NilSealed /\ ~orig.sealed

-----------------------------------------------------------------------------
(* NewNonceCache called with any capacity and TTL, and the cache it        *)
(* returns in use.                                                         *)

\* NewNonceCache(capacity, cacheTTL, timeProvider): the error of
\* ttlmap.NewMapWithProvider, which wants a capacity above 0, or the cache
NewNonceCache(capacity, cacheTTL) ==
    [err |-> IF capacity <= 0 THEN Error("Capacity should be > 0", "") ELSE Nil,
     NonceCacheCapacity |-> capacity,
     NonceCacheTimeout |-> cacheTTL]

InitNew ==
    /\ config \in {NewNonceCache(c, t) : c \in {-1, 0, 1, 2}, t \in {-1, 0, 1, 2}}
    /\ clock = 0
    /\ cache = EmptyMap
    /\ req = NewRequestOf(GET, <<"/">>, NilBody, NoHeader)
    /\ orig = Unsigned(req)
    /\ accepted = {}
    /\ evicted = FALSE
    /\ last = NoCall
    /\ mutex = 0
    /\ pc = [t \in Threads |-> "idle"]
    /\ local = [t \in Threads |-> NoLocal]
    /\ log = <<>>

\* nc.InCache(nonce) on the cache that NewNonceCache returned
InCacheOfNew == config.err = Nil /\ InCache

NextNew == TickExpiry \/ InCacheOfNew

SpecNew == InitNew /\ [][NextNew]_vars

\* C21: NewNonceCache returns an error when the capacity or the TTL is not
\* positive, and every InCache that returns false on a cache it returned
\* has stored its nonce.
NonPositiveRefused ==
    /\ (config.NonceCacheCapacity <= 0 \/ config.NonceCacheTimeout <= 0)
       => config.err # Nil
    /\ (log # <<>> /\ ~log[Len(log)].res) => log[Len(log)].nonce \in DOMAIN cache

-----------------------------------------------------------------------------
(* computeMAC on fields of any bytes: the fields are built a byte at a     *)
(* time, of digits, '|' and letters, and the MAC input is computed.        *)

\* the most bytes all fields hold together
MaxFieldBytes == 3

FieldBytes == {"1", "|", "a"}

FieldNames == {"timestamp", "nonce", "body", "httpVerb", "httpResourceUri"}

\* the arguments of computeMAC, all fields empty
EmptyFields(cfg) ==
    [timestamp |-> <<>>, nonce |-> <<>>, body |-> <<>>, httpVerb |-> <<>>,
     httpResourceUri |-> <<>>,
     headerValues |-> [i \in 1..Len(cfg.HeadersToSign) |-> <<>>]]

\* the fields computeMAC writes, in the order of its parameters' use
FieldsOf(cfg, t) ==
    <<t.timestamp, t.nonce, t.body>>
    \o (IF cfg.SignVerbAndURI THEN <<t.httpVerb, t.httpResourceUri>> ELSE <<>>)
    \o t.headerValues

RECURSIVE TotalLen(_)
TotalLen(fs) == IF fs = <<>> THEN 0 ELSE Len(fs[1]) + TotalLen(Tail(fs))

InitMAC ==
    /\ config \in {NewWithProviders(h, v, 0, 0, KeyABC) :
                     h \in {<<>>, <<CustomHeader>>, <<CustomHeader, XMailgunNonce>>},
                     v \in BOOLEAN}
    /\ clock = 0
    /\ cache = EmptyMap
    /\ req = EmptyFields(config)
    /\ orig = Unsigned(req)
    /\ accepted = {}
    /\ evicted = FALSE
    /\ last = NoCall
    /\ mutex = 0
    /\ pc = [t \in Threads |-> "idle"]
    /\ local = [t \in Threads |-> NoLocal]
    /\ log = <<>>

\* a byte is added to a field that computeMAC reads
AppendByte ==
    /\ TotalLen(FieldsOf(config, req)) < MaxFieldBytes
    /\ \E b \in FieldBytes :
         \/ \E f \in FieldNames :
              /\ f \in {"httpVerb", "httpResourceUri"} => config.SignVerbAndURI
              /\ req' = [req EXCEPT ![f] = Append(@, b)]
         \/ \E i \in 1..Len(req.headerValues) :
              req' = [req EXCEPT !.headerValues[i] = Append(@, b)]
    /\ log' = <<>>
    /\ UNCHANGED <<config, clock, cache, orig, accepted, evicted, last, mutex, pc, local>>

\* computeMAC(secretKey, signVerbAndUri, httpVerb, httpResourceUri,
\* timestamp, nonce, body, headerValues): the log keeps the bytes written
\* to the hmac
ComputeMAC ==
    /\ log = <<>>
    /\ log' = <<computeMAC(config.secretKey, config.SignVerbAndURI, req.httpVerb,
                           req.httpResourceUri, req.timestamp, req.nonce, req.body,
                           req.headerValues).data>>
    /\ UNCHANGED <<config, clock, cache, req, orig, accepted, evicted, last, mutex, pc, local>>

\* the bytes of a long field: its length has two digits
LongFieldBytes == 10

\* one field is made long, by a run of one letter after its first bytes
AppendRun ==
    /\ TotalLen(FieldsOf(config, req)) < MaxFieldBytes - 1
    /\ LET run == [i \in 1..LongFieldBytes |-> "a"]
       IN  \/ \E f \in FieldNames :
                /\ f \in {"httpVerb", "httpResourceUri"} => config.SignVerbAndURI
                /\ req' = [req EXCEPT ![f] = @ \o run]
           \/ \E i \in 1..Len(req.headerValues) :
                req' = [req EXCEPT !.headerValues[i] = @ \o run]
    /\ log' = <<>>
    /\ UNCHANGED <<config, clock, cache, orig, accepted, evicted, last, mutex, pc, local>>

NextMAC == AppendByte \/ AppendRun \/ ComputeMAC

SpecMAC == InitMAC /\ [][NextMAC]_vars

\* <decimal-length>|<raw-bytes>|
Closed(f) == Itoa(Len(f)) \o <<"|">> \o f \o <<"|">>

RECURSIVE ClosedFields(_)
ClosedFields(fs) == IF fs = <<>> THEN <<>> ELSE Closed(fs[1]) \o ClosedFields(Tail(fs))

\* C22: the MAC input is the fields in the order timestamp, nonce, body,
\* verb and URI if SignVerbAndURI, then the header values in the order of
\* HeadersToSign, each written as its decimal length, '|', its bytes and a
\* closing '|', the last field too.
EveryFieldClosed ==
    log # <<>> => log[1] = ClosedFields(FieldsOf(config, req))

\* The fields read back from a MAC input of k fields: the decimal digits up
\* to the first '|' are a length, that many bytes are a field, and a '|'
\* separates it from the next field.  <<"malformed">> when the bytes cannot
\* be read so.
RECURSIVE ReadFields(_, _)
ReadFields(bytes, k) ==
    LET bars == {i \in 1..Len(bytes) : bytes[i] = "|"}
        bar == IF bars = {} THEN 0 ELSE CHOOSE i \in bars : \A j \in bars : i <= j
        digits == SubSeq(bytes, 1, bar - 1)
        n == DigitsValue(digits)
        rest == SubSeq(bytes, bar + 1 + n + 1, Len(bytes))
    IN  IF k = 0 THEN (IF bytes = <<>> THEN <<>> ELSE <<"malformed">>)
        ELSE IF bar < 2 \/ \E i \in 1..(bar - 1) : ~IsDigit(bytes[i])
        THEN <<"malformed">>
        ELSE IF Len(bytes) < bar + n THEN <<"malformed">>
        ELSE IF k = 1
        THEN (IF Len(bytes) = bar + n THEN <<SubSeq(bytes, bar + 1, bar + n)>>
              ELSE <<"malformed">>)
        ELSE IF Len(bytes) < bar + n + 1 \/ bytes[bar + n + 1] # "|"
        THEN <<"malformed">>
        ELSE <<SubSeq(bytes, bar + 1, bar + n)>> \o ReadFields(rest, k - 1)

\* the field tuples that differ from fs by one byte moved from the end of
\* a field to the start of the next, or from the start of a field to the
\* end of the one before
Shifted(fs) ==
    {[fs EXCEPT ![i] = SubSeq(fs[i], 1, Len(fs[i]) - 1),
                ![i + 1] = <<fs[i][Len(fs[i])]>> \o fs[i + 1]] :
        i \in {j \in 1..(Len(fs) - 1) : fs[j] # <<>>}}
    \cup {[fs EXCEPT ![i] = Append(fs[i], fs[i + 1][1]),
                     ![i + 1] = Tail(fs[i + 1])] :
            i \in {j \in 1..(Len(fs) - 1) : fs[j + 1] # <<>>}}

\* the bytes computeMAC writes for the fields fs of configuration cfg
BytesOfFields(cfg, fs) ==
    LET v == cfg.SignVerbAndURI
        h == IF v THEN 5 ELSE 3
    IN  computeMAC(cfg.secretKey, v, IF v THEN fs[4] ELSE <<>>, IF v THEN fs[5] ELSE <<>>,
                   fs[1], fs[2], fs[3], SubSeq(fs, h + 1, Len(fs))).data

\* C23: for one configuration the MAC input determines the fields: the
\* same fields give the same bytes, the fields can be read back from the
\* bytes (so no two tuples of fields give the same bytes), and moving a
\* byte from a field into its neighbour changes the bytes.
FieldsDetermined ==
    log # <<>>
    => LET fs == FieldsOf(config, req)
       IN  /\ BytesOfFields(config, fs) = log[1]
           /\ ReadFields(log[1], Len(fs)) = fs
           /\ \A gs \in Shifted(fs) : BytesOfFields(config, gs) # log[1]

\* the nonce ends in "|1" and the body is empty: moving the '1', or "|1",
\* into the body gives other bytes
FieldsDeterminedWitness ==
    /\ log # <<>>
    /\ req.timestamp = <<"1">> /\ req.nonce = <<"|", "1">> /\ req.body = <<>>
    /\ Shifted(FieldsOf(config, req)) # {}
    /\ Len(req.headerValues) = 1

-----------------------------------------------------------------------------
(* A request signed now or too long ago reaches the Service as it was      *)
(* signed or with any of its parts missing or changed, any number of       *)
(* times.                                                                  *)

Defects == {"signature", "nonce", "timestamp", "header", "body"}

\* r without its signature, nonce, timestamp or custom header, or with
\* another body
WithDefects(r, ds) ==
    [r EXCEPT
       !.signature = IF "signature" \in ds THEN NoSignature ELSE @,
       !.body = IF "body" \in ds THEN Body(<<"z">>) ELSE @,
       !.header = [h \in HeaderNames |->
                     IF \/ h = XMailgunNonce /\ "nonce" \in ds
                        \/ h = XMailgunTimestamp /\ "timestamp" \in ds
                        \/ h = CustomHeader /\ "header" \in ds
                     THEN NoHeader ELSE r.header[h]]]

InitOrder ==
    /\ config \in {c \in Configs : ~c.secretKey.nil}
    /\ clock = MaxClock
    /\ cache = EmptyMap
    /\ \E base \in BaseRequests,
          at \in {clock, clock - (config.NonceCacheTimeout - MaxSkewSec)} :
         LET res == SignResult(config, base, KeyABC, HexEncode(FakeRNGBytes(NonceBytes)), at)
         IN  /\ res.err = Nil
             /\ req = res.r
             /\ orig = [signed |-> TRUE, r |-> res.r, key |-> KeyABC, at |-> at]
    /\ accepted = {}
    /\ evicted = FALSE
    /\ last = NoCall
    /\ mutex = 0
    /\ pc = [t \in Threads |-> "idle"]
    /\ local = [t \in Threads |-> NoLocal]
    /\ log = <<>>

\* the request is sent again: as signed, or with defects
Forge ==
    /\ \E ds \in SUBSET Defects : req' = WithDefects(orig.r, ds)
    /\ last' = NoCall
    /\ UNCHANGED <<config, clock, cache, orig, accepted, evicted>>
    /\ idle

NextOrder == Forge \/ AuthenticateRequest \/ AuthenticateRequestWithKey

SpecOrder == InitOrder /\ [][NextOrder]_vars

\* the error of the first check that fails, the checks taken in the order
\* signature, nonce and timestamp header, headers of HeadersToSign, MAC,
\* timestamp window, nonce cache
FirstFailure(r, secretKey) ==
    IF Missing(r, XMailgunSignature) THEN Error("header not found", XMailgunSignature)
    ELSE IF Missing(r, XMailgunNonce) THEN Error("header not found", XMailgunNonce)
    ELSE IF Missing(r, XMailgunTimestamp) THEN Error("header not found", XMailgunTimestamp)
    ELSE IF SignedHeaderMissing(r) THEN Error("header not found in request.", CustomHeader)
    ELSE IF secretKey # orig.key \/ SignedFields(config, r) # SignedFields(config, orig.r)
    THEN InvalidSignature
    ELSE IF ~WithinWindow(orig.at, clock, config.NonceCacheTimeout)
    THEN Error("timestamp header too old", "")
    ELSE IF HeaderGet(r.header[XMailgunNonce]) \in DOMAIN cache THEN ReplayError
    ELSE Nil

\* C24: every authenticate call returns the error of the first check that
\* fails in the order required headers (signature, nonce, timestamp),
\* headers of HeadersToSign, MAC, timestamp window, nonce cache; a call
\* that fails a check before the nonce cache leaves the cache as it was and
\* a call that returns nil has inserted the nonce; the cache holds the
\* nonce, and a call fails as a replay, only after a request with that
\* nonce passed the MAC and the timestamp check.
ChecksInOrder ==
    /\ [][last'.op = "auth"
          => LET expected == FirstFailure(Received(req), last'.key)
             IN  /\ last'.res = expected
                 /\ expected \notin {Nil, ReplayError} => cache' = cache
                 /\ expected = Nil
                    => HeaderGet(req.header[XMailgunNonce]) \in DOMAIN cache']_vars
    /\ [](cache # EmptyMap => accepted # {})
    /\ []((last.op = "auth" /\ last.res = ReplayError) => accepted # {})

\* a request with another body and a timestamp too old fails on its MAC,
\* and the nonce is not in the cache
ChecksInOrderWitness ==
    /\ last.op = "auth" /\ last.res = InvalidSignature /\ last.key = orig.key
    /\ req = WithDefects(orig.r, {"body"})
    /\ ~WithinWindow(orig.at, clock, config.NonceCacheTimeout)
    /\ cache = EmptyMap

-----------------------------------------------------------------------------
(* One Service signs requests, any number of them, and authenticates the   *)
(* request it signed last.                                                 *)

\* SignRequest that puts the nonce it generated into the nonce cache
SignRequestRecording ==
    /\ Len(log) < MaxCalls
    /\ \E base \in BaseRequests, nonce \in HexDigest(NonceBytes) :
         LET res == SignResult(config, base, config.secretKey, nonce, clock)
         IN  /\ req' = res.r
             /\ orig' = IF res.err = Nil
                        THEN [signed |-> TRUE, r |-> res.r, key |-> config.secretKey,
                              at |-> clock]
                        ELSE Unsigned(res.r)
             /\ last' = [op |-> "sign", method |-> "SignRequest",
                         key |-> config.secretKey, res |-> res.err, seen |-> FALSE,
                         attempt |-> 0, metrics |-> <<>>]
             /\ log' = Append(log, nonce)
             /\ cache' \in InCacheMaps(cache, config.NonceCacheCapacity,
                                       config.NonceCacheTimeout, clock, nonce)
    /\ UNCHANGED <<config, clock, accepted, evicted, mutex, pc, local>>

\* s.SignRequest(request) on a new request; the log keeps the nonces the
\* random provider returned
SignRequestAgain ==
    /\ Len(log) < MaxCalls
    /\ \E base \in BaseRequests, nonce \in HexDigest(NonceBytes) :
         LET res == SignResult(config, base, config.secretKey, nonce, clock)
         IN  /\ req' = res.r
             /\ orig' = IF res.err = Nil
                        THEN [signed |-> TRUE, r |-> res.r, key |-> config.secretKey,
                              at |-> clock]
                        ELSE Unsigned(res.r)
             /\ last' = [op |-> "sign", method |-> "SignRequest",
                         key |-> config.secretKey, res |-> res.err, seen |-> FALSE,
                         attempt |-> 0, metrics |-> <<>>]
             /\ log' = Append(log, nonce)
    /\ UNCHANGED <<config, clock, cache, accepted, evicted, mutex, pc, local>>

InitSelf == Init /\ ~config.secretKey.nil

NextSelf == SignRequestAgain \/ AuthenticateRequest \/ AuthenticateRequestWithKey

SpecSelf == InitSelf /\ [][NextSelf]_vars

\* C25: a signing call leaves the nonce cache as it was, whatever it holds;
\* as long as no request was accepted the cache is empty, however many
\* requests were signed; and the Service accepts a request it signed itself
\* whose nonce the cache does not hold.
SigningLeavesCache ==
    /\ [][last'.op = "sign" => (cache' = cache /\ accepted' = accepted)]_vars
    /\ [][(/\ last'.op = "auth" /\ orig.signed /\ req = orig.r /\ last'.key = orig.key
           /\ HeaderGet(req.header[XMailgunNonce]) \notin DOMAIN cache)
          => (last'.res = Nil /\ Cardinality(DOMAIN cache') <= Cardinality(DOMAIN cache) + 1)]_vars
    /\ [](accepted = {} => cache = EmptyMap)

\* three requests signed, the last one accepted by the Service that signed
\* it: the cache of capacity 1 holds its nonce and freed no entry
SigningLeavesCacheWitness ==
    /\ Len(log) = MaxCalls
    /\ last.op = "auth" /\ last.method = "AuthenticateRequest" /\ last.res = Nil
    /\ req = orig.r
    /\ DOMAIN cache = {log[MaxCalls]}
    /\ ~evicted

-----------------------------------------------------------------------------
(* The nonce cache given more nonces than its capacity.                    *)

ManyNonces == CacheNonces \cup {<<"2">>, <<"3">>}

\* nc.InCache(nonce), the whole call, with any of the nonces
InCacheOfMany ==
    /\ Len(log) < MaxCalls
    /\ \E n \in ManyNonces :
          /\ cache' \in InCacheMaps(cache, config.NonceCacheCapacity,
                                    config.NonceCacheTimeout, clock, n)
          /\ evicted' = (evicted \/ InCacheFrees(cache, config.NonceCacheCapacity,
                                                 config.NonceCacheTimeout, clock, n))
          /\ log' = Append(log, [nonce |-> n, res |-> InCacheExists(cache, clock, n),
                                 at |-> clock])
    /\ UNCHANGED <<config, clock, req, orig, accepted, last, mutex, pc, local>>

NextMany == TickCache \/ InCacheOfMany

SpecMany == InitExpiry /\ [][NextMany]_vars

-----------------------------------------------------------------------------
(* Sealing with a random provider that may fail, or return fewer or more   *)
(* bytes than it was asked for.                                            *)

\* what randomProvider.Bytes(NonceLength) may return: the bytes asked for,
\* an error, or bytes of another number
ProviderOutcomes ==
    {[err |-> Nil, bytes |-> b] : b \in CSPRNGBytes(NonceLength)}
    \cup {[err |-> Nil, bytes |-> FakeRNGBytes(n)] : n \in {NonceLength - 1, NonceLength + 1}}
    \cup {[err |-> Error("unexpected EOF", ""), bytes |-> <<>>]}

\* s.SealWithKey(value, secretKey) when the random provider returns outcome
\* to generateNonce
SealWithProvider(s, value, secretKey, outcome) ==
    IF secretKey.nil THEN [err |-> KeyIsNil, sealed |-> NilSealed]
    ELSE IF outcome.err # Nil
    THEN [err |-> Error("unable to generate nonce", ""), sealed |-> NilSealed]
    ELSE SealWithKeyResult(s, value, secretKey, outcome.bytes)

\* sealed, err := s.SealWithKey(value, secretKey); the log keeps what the
\* random provider returned during the call
SealWithAnyProvider ==
    \E value \in Plaintexts, secretKey \in SecretKeys \cup {NilKey},
       outcome \in ProviderOutcomes :
        LET res == SealWithProvider(config, value, secretKey, outcome)
        IN  /\ req' = res.sealed
            /\ orig' = IF res.err = Nil
                       THEN [sealed |-> TRUE, plaintext |-> value, key |-> secretKey,
                             e |-> res.sealed]
                       ELSE orig
            /\ last' = [op |-> "seal", method |-> "SealWithKey", key |-> secretKey,
                        res |-> res.err, out |-> NilBytes]
            /\ log' = <<outcome>>
            /\ UNCHANGED <<config, clock, cache, accepted, evicted, mutex, pc, local>>

NextNonce == SealWithAnyProvider \/ Open \/ OpenWithKey

SpecNonce == InitSeal /\ [][NextNonce]_vars

\* C27: a sealing call returns a SealedBytes exactly when it has a key and
\* the random provider returned 24 bytes without an error; the nonce of the
\* SealedBytes is those 24 bytes; when the provider fails or returns
\* another number of bytes the call returns an error and a nil SealedBytes.
NonceFromProvider ==
    (last.op = "seal" /\ log # <<>>)
    => LET outcome == log[1]
           drawn == outcome.err = Nil /\ Len(outcome.bytes) = NonceLength
       IN  /\ last.res = Nil <=> (~last.key.nil /\ drawn)
           /\ last.res = Nil
              => (/\ ~req.nil
                  /\ Len(req.Nonce) = NonceLength
                  /\ req.Nonce = outcome.bytes)
           /\ last.res # Nil => req = NilSealed
           /\ (~last.key.nil /\ ~drawn)
              => last.res = Error("unable to generate nonce", "")

\* the provider returned 23 bytes: no SealedBytes
NonceFromProviderWitness ==
    /\ last.op = "seal" /\ log # <<>> /\ ~last.key.nil
    /\ log[1].err = Nil /\ Len(log[1].bytes) = NonceLength - 1
    /\ last.res # Nil /\ req = NilSealed

\* C28: OpenWithKey with a key, given a SealedBytes whose nonce is not 24
\* bytes long - shorter, longer or empty - returns 'wrong nonce length'
\* with that length, and no plaintext; the nonce is not cut or filled up to
\* 24 bytes and opened.
WrongNonceLength ==
    (last.op = "open" /\ ~last.key.nil /\ ~req.nil /\ Len(req.Nonce) # NonceLength)
    => (last.res = Error("wrong nonce length", Len(req.Nonce)) /\ last.out = NilBytes)

\* the nonce sealed followed by one more byte, opened with the key of the
\* seal
WrongNonceLengthWitness ==
    /\ last.op = "open" /\ orig.sealed /\ last.key = orig.key /\ ~req.nil
    /\ req.Ciphertext = orig.e.Ciphertext
    /\ Len(req.Nonce) = NonceLength + 1
    /\ SubSeq(req.Nonce, 1, NonceLength) = orig.e.Nonce
    /\ last.res.err = "wrong nonce length"

-----------------------------------------------------------------------------
(* Construction: httpsign.NewWithProviders and secret.New, called with a   *)
(* config or nil, and a key file that can be read or cannot.               *)

\* no *Service
NoService == [nil |-> TRUE]

\* a key file: one that cannot be read, or its bytes
NoFile == [readable |-> FALSE, bytes |-> <<>>]
File(b) == [readable |-> TRUE, bytes |-> b]

\* httpsign's readKeyFromDisk(keypath): the error of ReadFile, or the bytes
\* of the file less one trailing newline
readKeyFromDisk(file) ==
    IF ~file.readable THEN [err |-> Error("no such file or directory", ""), key |-> NilKey]
    ELSE [err |-> Nil,
          key |-> Key(IF file.bytes # <<>> /\ file.bytes[Len(file.bytes)] = "\n"
                      THEN SubSeq(file.bytes, 1, Len(file.bytes) - 1)
                      ELSE file.bytes)]

\* httpsign.NewWithProviders(config, timeProvider, randomProvider) with
\* EmitStats off: the error and the Service.  The error of readKeyFromDisk
\* is overwritten by that of NewNonceCache.
NewWithProvidersResult(arg, file) ==
    IF arg.nil THEN [err |-> Error("config is required.", ""), service |-> NoService]
    ELSE LET s == NewWithProviders(arg.HeadersToSign, arg.SignVerbAndURI,
                                   arg.NonceCacheCapacity, arg.NonceCacheTimeout,
                                   readKeyFromDisk(file).key)
             ncache == NewNonceCache(s.NonceCacheCapacity, s.NonceCacheTimeout)
         IN  IF ncache.err # Nil THEN [err |-> ncache.err, service |-> NoService]
             ELSE [err |-> Nil, service |-> s]

\* secret.New(config): config.Keypath is read without a test of config;
\* the file is given by the bytes its contents decode to
SecretNewResult(arg, file) ==
    IF arg.nil THEN [err |-> Error("panic", "nil pointer dereference"), service |-> NoService]
    ELSE IF ~file.readable
    THEN [err |-> Error("no such file or directory", ""), service |-> NoService]
    ELSE IF Len(file.bytes) # SecretKeyLength
    THEN [err |-> Error("wrong key length", Len(file.bytes)), service |-> NoService]
    ELSE [err |-> Nil, service |-> NewWithKeyBytes(Key(file.bytes))]

NilConfig == [nil |-> TRUE]

\* the arguments of a construction: the package, the config, the key file
ConstructorArguments ==
    {[package |-> "httpsign", config |-> c, file |-> f] :
        c \in {NilConfig}
              \cup [nil : {FALSE}, HeadersToSign : {<<>>, <<CustomHeader>>},
                    SignVerbAndURI : BOOLEAN, NonceCacheCapacity : {-1, 0, 1, 2},
                    NonceCacheTimeout : {0, 1, SmallTTL}],
        f \in {NoFile, File(<<"a", "b", "c">>), File(<<"a", "b", "c", "\n">>)}}
    \cup {[package |-> "secret", config |-> c, file |-> f] :
            c \in {NilConfig, [nil |-> FALSE]},
            f \in {NoFile} \cup {File(FakeRNGBytes(n)) :
                                   n \in {0, SecretKeyLength - 1, SecretKeyLength,
                                          SecretKeyLength + 1}}}

InitConstruct ==
    /\ config = NoService
    /\ clock = 0
    /\ cache = EmptyMap
    /\ req \in ConstructorArguments
    /\ orig = req
    /\ accepted = {}
    /\ evicted = FALSE
    /\ last = NoCall
    /\ mutex = 0
    /\ pc = [t \in Threads |-> "idle"]
    /\ local = [t \in Threads |-> NoLocal]
    /\ log = <<>>

Constructed(res, method) ==
    /\ last.op = "none"
    /\ config' = res.service
    /\ last' = [op |-> "new", method |-> method, key |-> NilKey, res |-> res.err,
                seen |-> FALSE, attempt |-> 0, metrics |-> <<>>]
    /\ UNCHANGED <<clock, cache, req, orig, accepted, evicted>>
    /\ idle

\* s, err := httpsign.NewWithProviders(config, timeProvider, randomProvider)
NewSigningService ==
    /\ req.package = "httpsign"
    /\ Constructed(NewWithProvidersResult(req.config, req.file), "NewWithProviders")

\* s, err := secret.New(config)
NewSealingService ==
    /\ req.package = "secret"
    /\ Constructed(SecretNewResult(req.config, req.file), "New")

NextConstruct == NewSigningService \/ NewSealingService

SpecConstruct == InitConstruct /\ [][NextConstruct]_vars

\* C29: NewWithProviders and New return an error and no Service when the
\* config is nil, when the key file cannot be read, and for New when the
\* key is not 32 bytes long.
ConfigurationErrorsReturned ==
    (/\ last.op = "new"
     /\ \/ req.config.nil
        \/ ~req.file.readable
        \/ req.package = "secret" /\ Len(req.file.bytes) # SecretKeyLength)
    => (last.res # Nil /\ last.res.err # "panic" /\ config = NoService)

-----------------------------------------------------------------------------
(* The goroutines under a fair scheduler: a goroutine that can take a step *)
(* of its call takes it at some time.  The clock may stop.                 *)

SpecCacheFair ==
    /\ SpecCache
    /\ \A t \in Threads :
          WF_vars(Lock(t) \/ Get(t) \/ Set(t) \/ Unlock(t) \/ InCacheReturn(t))

SpecAuthFair ==
    /\ SpecAuth
    /\ \A t \in Threads :
          WF_vars(CheckMACStep(t) \/ CheckTimestampStep(t) \/ Lock(t) \/ Get(t)
                  \/ Set(t) \/ Unlock(t) \/ AuthenticateReturn(t))

\* C30: every call of InCache returns, whether it finds the nonce or
\* inserts it; a goroutine that has returned does not hold the mutex, and
\* a mutex held is released.
EveryCallReturns ==
    /\ \A t \in Threads : (pc[t] = "lock") ~> (pc[t] = "return")
    /\ \A t \in Threads : [](pc[t] \in {"idle", "lock", "return"} => mutex # t)
    /\ (mutex # 0) ~> (mutex = 0)

\* a call that found the nonce and a call that inserted one have returned,
\* and the mutex is free
EveryCallReturnsWitness ==
    /\ \E i, j \in 1..Len(log) : log[i].res /\ ~log[j].res
    /\ \A t \in Threads : pc[t] \in {"idle", "return"}
    /\ mutex = 0

\* every authenticate call returns
EveryAuthenticateReturns ==
    \A t \in Threads : (pc[t] = "mac") ~> (pc[t] = "done")

=============================================================================
